---- MODULE Spec2Model ----
(***************************************************************************)
(* Job lifecycle and messaging core of the CV intake backend:              *)
(*   - the status store    (services/cv_status_service.py)                 *)
(*   - the event publisher (services/nats_service.py)                      *)
(*   - the upload job      (services/cv_service.py, api/v1/cv.py,          *)
(*                          services/cv_extraction_service.py)             *)
(* Time is counted in hours; a timestamp is the clock reading at the call. *)
(***************************************************************************)
EXTENDS Integers, Sequences, FiniteSets, TLC

VARIABLES
    status_storage,  \* CVStatusManager._status_storage: session id -> list of dicts
    now,             \* wall clock read by datetime.now()
    recorded,        \* history variable: the updates recorded per session since its list was created
    last_update,     \* history variable: the update returned by the latest update_status per session
    calls,           \* number of update_status calls made so far
    last_call,       \* the latest operation, its arguments and what it returned
    bus,             \* the messages the NATS server accepted: subject, payload, transport
    requests,        \* per request_response call: where it stands and what it returned
    subscribers,     \* NATSService._subscribers: subscription id -> subscription
    issued,          \* history variable: the subscription ids subscribe_to_events returned
    retired,         \* history variable: the subscription ids unsubscribe returned True for
    connection,      \* core/nats.py _connection: its nc, js and connected fields
    nats_client,     \* core/nats.py _nats_client
    jetstream,       \* core/nats.py _jetstream
    clients,         \* the NATS() objects created so far, and the server each one met
    minted,          \* history variable: the generate_session_id calls made, and their ids
    hash_salt,       \* the interpreter's string hash seed, fixed once a hash was taken
    event_publisher, \* CVEventIntegration.event_publisher: the client it wraps, once created
    polled,          \* history variable: per session, the responses a polling client received
    threads,         \* per thread using the status store: the call it is in, and its locals
    jobs,            \* per upload request: where its handler stands
    responses,       \* per upload request: the HTTP response, once sent
    cv_table,        \* rows of the cvs table, in insertion order
    current_session_id,  \* cv_extraction_service._current_session_id
    tool_calls,      \* number of tool invocations made by agent runs so far
    writers          \* history variable: per session id, the jobs whose tools recorded
                     \* under it after reading it from the module global

vars == <<status_storage, now, recorded, last_update, calls, last_call, bus,
          requests, subscribers, issued, retired,
          connection, nats_client, jetstream, clients,
          minted, hash_salt, event_publisher, polled, threads,
          jobs, responses, cv_table, current_session_id, tool_calls, writers>>
job_vars == <<jobs, responses, cv_table, current_session_id, tool_calls, writers>>
store_vars == <<status_storage, now, recorded, last_update, calls>>
sub_vars == <<subscribers, issued, retired>>
conn_vars == <<connection, nats_client, jetstream, clients>>
id_vars == <<minted, hash_salt>>
bus_vars == <<bus, requests, sub_vars>>

----------------------------------------------------------------------------
(* Bounds of the model *)

MaxCalls == 2
MaxBurst == 22
MaxTime == 1
MaxAge == 1
MaxToolCalls == 3
MaxRequests == 1
MaxSubs == 2

Sessions == {"s1", "s2"}
BurstStages == {"openai_upload", "cv_parsing"}
Details == {""}
\* Python's None, as a value comparable with a status dict
None == [none |-> TRUE]

----------------------------------------------------------------------------
(* services/cv_status_service.py *)

Stages ==
    {"upload_started", "file_validation", "guardrail_validation",
     "file_preparation", "openai_upload", "cv_parsing", "profile_enrichment",
     "skills_extraction", "gap_analysis", "finalizing", "completed", "error"}

stage_messages ==
    [stage \in Stages |->
        CASE stage = "upload_started" ->
                [message |-> "Starting CV upload...", progress |-> 5]
          [] stage = "file_validation" ->
                [message |-> "Validating your CV file...", progress |-> 10]
          [] stage = "guardrail_validation" ->
                [message |-> "Checking document format...", progress |-> 15]
          [] stage = "file_preparation" ->
                [message |-> "Preparing your CV for analysis...", progress |-> 20]
          [] stage = "openai_upload" ->
                [message |-> "Uploading to AI processing system...", progress |-> 30]
          [] stage = "cv_parsing" ->
                [message |-> "Analyzing your CV content...", progress |-> 50]
          [] stage = "profile_enrichment" ->
                [message |-> "Enhancing your professional profile...", progress |-> 65]
          [] stage = "skills_extraction" ->
                [message |-> "Identifying your skills and expertise...", progress |-> 75]
          [] stage = "gap_analysis" ->
                [message |-> "Analyzing profile completeness...", progress |-> 85]
          [] stage = "finalizing" ->
                [message |-> "Finalizing your profile analysis...", progress |-> 95]
          [] stage = "completed" ->
                [message |-> "CV analysis complete! Your feedback is ready.", progress |-> 100]
          [] stage = "error" ->
                [message |-> "Something went wrong. Please try again.", progress |-> 0]]

HistoryLimit == 20

\* The fallback taken for every entry that counts as empty, progress 0 included
StageConfigFallbackOnZero(stage) ==
    IF stage \in DOMAIN stage_messages /\ stage_messages[stage].progress # 0
    THEN stage_messages[stage]
    ELSE [message |-> "Processing...", progress |-> 50]

\* stage_config of update_status: the table's entry, or the fallback
StageConfig(stage) ==
    IF stage \in DOMAIN stage_messages
    THEN stage_messages[stage]
    ELSE [message |-> "Processing...", progress |-> 50]

\* CVStatusUpdate(...).to_dict()
CVStatusUpdate(stage, message, progress, details) ==
    [stage |-> stage, message |-> message, progress |-> progress,
     details |-> details, timestamp |-> now]

Put(f, k, v) == [x \in (DOMAIN f) \cup {k} |-> IF x = k THEN v ELSE f[x]]
Remove(f, ks) == [x \in (DOMAIN f) \ ks |-> f[x]]
Last(h) == h[Len(h)]

\* "Keep only the last 20 status updates per session"
TrimKeepsOldest(h) ==
    IF Len(h) > HistoryLimit THEN SubSeq(h, 1, HistoryLimit) ELSE h

Trim(h) ==
    IF Len(h) > HistoryLimit
    THEN SubSeq(h, Len(h) - HistoryLimit + 1, Len(h))
    ELSE h

\* The update built by update_status(session_id, stage, details)
NewUpdate(stage, details) ==
    CVStatusUpdate(stage, StageConfig(stage).message,
                   StageConfig(stage).progress, details)

\* update_status sweeping the other sessions as it records
StoreAfterUpdateSweeping(session_id, stage, details) ==
    LET created == IF session_id \in DOMAIN status_storage
                   THEN status_storage
                   ELSE Put(status_storage, session_id, <<>>)
        updated == Put(created, session_id,
                       Trim(Append(created[session_id], NewUpdate(stage, details))))
    IN  Remove(updated, {s \in DOMAIN updated : Last(updated[s]).timestamp < now})

\* The store after update_status(session_id, stage, details)
StoreAfterUpdate(session_id, stage, details) ==
    LET created == IF session_id \in DOMAIN status_storage
                   THEN status_storage
                   ELSE Put(status_storage, session_id, <<>>)
    IN  Put(created, session_id,
            Trim(Append(created[session_id], NewUpdate(stage, details))))

\* CVStatusManager.update_status, with the history variables kept beside it
update_status(session_id, stage, details) ==
    /\ status_storage' = StoreAfterUpdate(session_id, stage, details)
    /\ recorded' = Put(recorded, session_id,
                       Append(IF session_id \in DOMAIN status_storage
                              THEN recorded[session_id] ELSE <<>>,
                              NewUpdate(stage, details)))
    /\ last_update' = Put(last_update, session_id, NewUpdate(stage, details))
    /\ calls' = calls + 1

\* CVStatusManager.get_current_status
get_current_status_oldest(session_id) ==
    IF session_id \notin DOMAIN status_storage
       \/ status_storage[session_id] = <<>>
    THEN None
    ELSE Head(status_storage[session_id])

get_current_status(session_id) ==
    IF session_id \notin DOMAIN status_storage
       \/ status_storage[session_id] = <<>>
    THEN None
    ELSE Last(status_storage[session_id])

\* The default get_status_for_frontend synthesizes for a session without status
FrontendDefaultFromErrorRow ==
    [status |-> "upload_started", message |-> "Starting CV upload...",
     progress |-> StageConfig("error").progress,
     details |-> "Processing is starting, please wait...", timestamp |-> now]

FrontendDefault ==
    [status |-> "upload_started", message |-> "Starting CV upload...",
     progress |-> 5,
     details |-> "Processing is starting, please wait...", timestamp |-> now]

\* get_status_for_frontend(session_id): what the poll returns
get_status_for_frontend(session_id) ==
    LET current_status == get_current_status(session_id)
    IN  IF current_status = None
        THEN FrontendDefault
        ELSE [status |-> current_status.stage,
              message |-> current_status.message,
              progress |-> current_status.progress,
              details |-> current_status.details,
              timestamp |-> current_status.timestamp]

\* CVStatusManager.clear_session
clear_session(session_id) ==
    /\ status_storage' = Remove(status_storage, {session_id})
    /\ recorded' = Remove(recorded, {session_id})

\* The first loop reading the oldest entry of each history instead of the latest
sessions_to_remove_by_first(max_age_hours) ==
    {s \in DOMAIN status_storage :
        /\ status_storage[s] # <<>>
        /\ Head(status_storage[s]).timestamp < now - max_age_hours}

\* The sessions cleanup_old_sessions(max_age_hours) removes
sessions_to_remove(max_age_hours) ==
    {s \in DOMAIN status_storage :
        /\ status_storage[s] # <<>>
        /\ Last(status_storage[s]).timestamp < now - max_age_hours}

\* CVStatusManager.cleanup_old_sessions
cleanup_old_sessions(max_age_hours) ==
    /\ status_storage' = Remove(status_storage, sessions_to_remove(max_age_hours))
    /\ recorded' = Remove(recorded, sessions_to_remove(max_age_hours))

----------------------------------------------------------------------------
(* Operations of the status store, as its callers invoke them *)

\* log_status_update(session_id, stage, details) called with any arguments
LogStatusUpdate ==
    \E s \in Sessions, stage \in Stages, d \in Details :
        /\ calls < MaxCalls
        /\ update_status(s, stage, d)
        /\ last_call' = [op |-> "update_status", session |-> s,
                         result |-> NewUpdate(stage, d)]
        /\ UNCHANGED <<now, bus_vars, conn_vars, threads, job_vars, id_vars, event_publisher, polled>>

\* GET /cv-processing-sessions/{session_id}
GetProcessingSession ==
    \E s \in Sessions :
        /\ last_call' = [op |-> "get_status_for_frontend", session |-> s,
                         result |-> get_status_for_frontend(s)]
        /\ UNCHANGED <<status_storage, now, recorded, last_update, calls, bus_vars,
                       conn_vars, threads, job_vars, id_vars, event_publisher, polled>>

ClearSession ==
    \E s \in Sessions :
        /\ clear_session(s)
        /\ last_call' = [op |-> "clear_session", session |-> s]
        /\ UNCHANGED <<now, last_update, calls, bus_vars, conn_vars, threads, job_vars,
                       id_vars, event_publisher, polled>>

\* cleanup_old_sessions called with one of the given values of max_age_hours
Cleanup(ages) ==
    \E max_age_hours \in ages :
        /\ cleanup_old_sessions(max_age_hours)
        /\ last_call' = [op |-> "cleanup_old_sessions", max_age |-> max_age_hours]
        /\ UNCHANGED <<now, last_update, calls, bus_vars, conn_vars, threads, job_vars,
                       id_vars, event_publisher, polled>>

CleanupOldSessions == Cleanup(0..MaxAge)

Tick ==
    /\ now < MaxTime
    /\ now' = now + 1
    /\ UNCHANGED <<status_storage, recorded, last_update, calls, last_call, bus_vars,
                   conn_vars, threads, job_vars, id_vars, event_publisher, polled>>

InitStore ==
    /\ status_storage = <<>>
    /\ now = 0
    /\ recorded = <<>>
    /\ last_update = <<>>
    /\ calls = 0
    /\ last_call = [op |-> "none"]

Jobs == {"j1", "j2"}
\* Optional[str] fields and globals holding Python's None
NoSessionId == "<None>"

InitJobs ==
    /\ jobs = [j \in Jobs |-> [pc |-> "idle", cv_id |-> 0, tool_session |-> "",
                                 from_global |-> FALSE, outcome |-> ""]]
    /\ responses = [j \in Jobs |-> [kind |-> "pending"]]
    /\ cv_table = <<>>
    /\ current_session_id = NoSessionId
    /\ tool_calls = 0
    /\ writers = [s \in Sessions |-> {}]

Threads == {"t1", "t2"}

\* A thread outside any call on the store
IdleThread ==
    [pc |-> "idle", session_id |-> "", status_update |-> None,
     sessions_to_remove |-> {}, max_age_hours |-> 0]

InitThreads ==
    threads = [t \in Threads |-> IdleThread]

\* The request_response calls that can be in progress at once
RequestSlots == 1..MaxRequests

\* No call in this slot
IdleRequest == [pc |-> "idle"]

InitBus ==
    /\ bus = {}
    /\ requests = [r \in RequestSlots |-> IdleRequest]
    /\ subscribers = <<>>
    /\ issued = {}
    /\ retired = {}

\* Python's None where a NATS client or a JetStream context is expected
NoClient == 0

\* NATSConnection.__init__ and the module globals
InitConnection ==
    /\ connection = [nc |-> NoClient, js |-> NoClient, connected |-> FALSE]
    /\ nats_client = NoClient
    /\ jetstream = NoClient
    /\ clients = <<>>

\* No session id generated yet, no string hashed yet
NoSalt == 0
InitSessionIds ==
    /\ minted = <<>>
    /\ hash_salt = NoSalt

\* CVEventIntegration.__init__: self.event_publisher = None
InitEvents ==
    event_publisher = NoClient

\* No client has polled yet
InitPolls ==
    polled = [s \in Sessions |-> <<>>]

Init ==
    /\ InitStore
    /\ InitBus
    /\ InitJobs
    /\ InitThreads
    /\ InitConnection
    /\ InitSessionIds
    /\ InitEvents
    /\ InitPolls

NextStore ==
    \/ LogStatusUpdate
    \/ GetProcessingSession
    \/ ClearSession
    \/ CleanupOldSessions
    \/ Tick

SpecStore == Init /\ [][NextStore]_vars

----------------------------------------------------------------------------
(* Long histories: a caller that keeps reporting the stage its session is  *)
(* in and moves through the stages in pipeline order.                      *)

RecordBurst ==
    \E s \in Sessions, stage \in BurstStages :
        /\ calls < MaxBurst
        /\ s \in DOMAIN recorded =>
              StageConfig(stage).progress >= Last(recorded[s]).progress
        /\ update_status(s, stage, "")
        /\ last_call' = [op |-> "update_status", session |-> s,
                         result |-> NewUpdate(stage, "")]
        /\ UNCHANGED <<now, bus_vars, conn_vars, threads, job_vars, id_vars, event_publisher, polled>>

NextTrim ==
    \/ RecordBurst
    \/ ClearSession

SpecTrim == Init /\ [][NextTrim]_vars

----------------------------------------------------------------------------
(* Claims about the status store *)

Min(a, b) == IF a < b THEN a ELSE b
LastN(h, n) == SubSeq(h, Len(h) - n + 1, Len(h))

\* C2: every stored history has at most 20 entries and equals, in call order,
\* the last min(n, 20) updates recorded for its session since the history was
\* created.
C2_HistoryIsLast20 ==
    \A s \in DOMAIN status_storage :
        /\ Len(status_storage[s]) <= 20
        /\ status_storage[s] = LastN(recorded[s], Min(Len(recorded[s]), 20))

C2_Witness ==
    \E s \in DOMAIN status_storage :
        /\ Len(recorded[s]) > 20
        /\ Len(status_storage[s]) = 20
        /\ recorded[s][1] # status_storage[s][1]

\* C3: for a session with a stored history, get_current_status returns the
\* entry produced by the most recent update_status call on that session, also
\* after the history was trimmed to 20 entries.
C3_CurrentIsMostRecent ==
    \A s \in DOMAIN status_storage :
        get_current_status(s) = last_update[s]

C3_Witness ==
    \E s \in DOMAIN status_storage :
        /\ Len(recorded[s]) > 20
        /\ get_current_status(s) = Last(recorded[s])
        /\ get_current_status(s) # recorded[s][1]

\* C4: a poll for a session id without stored history returns the synthesized
\* default (status upload_started, progress 5) and neither creates a history
\* for that id nor changes any stored history.
C4_UnknownSessionDefault ==
    [][\A s \in Sessions :
          (/\ last_call'.op = "get_status_for_frontend"
           /\ last_call'.session = s
           /\ s \notin DOMAIN status_storage)
          => /\ last_call'.result.status = "upload_started"
             /\ last_call'.result.progress = 5
             /\ last_call'.result.message = "Starting CV upload..."
             /\ status_storage' = status_storage]_vars

C4_Witness ==
    /\ last_call.op = "get_status_for_frontend"
    /\ last_call.session \notin DOMAIN status_storage
    /\ last_call.session \in DOMAIN last_update
    /\ last_call.result.progress = 5
    /\ DOMAIN status_storage # {}

\* update_status was just called on session s
Updated(s) ==
    /\ calls' = calls + 1
    /\ s \in DOMAIN recorded'
    /\ s \notin DOMAIN recorded \/ recorded'[s] # recorded[s]

\* C5: on one session the progress values returned by successive update_status
\* calls never decrease, except for an update to stage ERROR.
C5_ProgressNonDecreasing ==
    [][\A s \in DOMAIN last_update :
          Updated(s)
          => \/ last_update'[s].progress >= last_update[s].progress
             \/ last_update'[s].stage = "error"]_vars

\* C6: once the current stage of a session is COMPLETED or ERROR, no
\* operation changes the current stage of that session.
C6_TerminalStagesAbsorbing ==
    [][\A s \in DOMAIN status_storage :
          (/\ get_current_status(s).stage \in {"completed", "error"}
           /\ s \in DOMAIN status_storage')
          => Last(status_storage'[s]).stage = get_current_status(s).stage]_vars

----------------------------------------------------------------------------
(* services/nats_service.py: NATSService.publish_event                     *)
(* A call is described by its arguments and by what the transport does     *)
(* during the call: whether nc.jetstream() yields a context, whether       *)
(* js.publish is acknowledged and whether nc.publish is accepted.  Every   *)
(* failure is a Python Exception raised at the failing call.               *)

Subjects == {"events.cv.uploaded", "events.cv.processing.completed"}

\* Event data: a JSON-serializable dict, and one json.dumps rejects
Payloads ==
    {[body |-> [session_id |-> "s1", success |-> TRUE], json_serializable |-> TRUE],
     [body |-> [session_id |-> "s2", success |-> FALSE], json_serializable |-> FALSE]}

\* json.dumps(data).encode("utf-8"): the bytes, or raises TypeError
Serialize(data) ==
    IF data.json_serializable
    THEN [raises |-> FALSE, payload |-> <<"utf-8", "json", data.body>>]
    ELSE [raises |-> TRUE]

\* One transport send: the attempt, and whether it raised
Send(via, ok) == [via |-> via, ok |-> ok]

\* The persistent branch without its except clause: the JetStream error propagates
PersistentBranchNoFallback(js_ctx_ok, js_pub_ok, core_ok) ==
    IF js_ctx_ok /\ js_pub_ok
    THEN [raises |-> FALSE, attempts |-> <<Send("jetstream", TRUE)>>]
    ELSE [raises |-> TRUE,
          attempts |-> IF js_ctx_ok THEN <<Send("jetstream", FALSE)>> ELSE <<>>]

\* "if persistent:" try js.publish, except Exception: fall back to nc.publish
PersistentBranch(js_ctx_ok, js_pub_ok, core_ok) ==
    LET js_attempts == IF js_ctx_ok THEN <<Send("jetstream", js_pub_ok)>> ELSE <<>>
    IN  IF js_ctx_ok /\ js_pub_ok
        THEN [raises |-> FALSE, attempts |-> js_attempts]
        ELSE [raises |-> ~core_ok,
              attempts |-> Append(js_attempts, Send("core", core_ok))]

\* The non-persistent branch sending through JetStream instead
CoreBranchViaJetStream(core_ok) ==
    [raises |-> ~core_ok, attempts |-> <<Send("jetstream", core_ok)>>]

\* "else:" core NATS, fire and forget
CoreBranch(core_ok) ==
    [raises |-> ~core_ok, attempts |-> <<Send("core", core_ok)>>]

\* The body of the outer try: returns True, or raises
PublishBody(data, persistent, js_ctx_ok, js_pub_ok, core_ok) ==
    IF Serialize(data).raises
    THEN [raises |-> TRUE, attempts |-> <<>>]
    ELSE IF persistent
         THEN PersistentBranch(js_ctx_ok, js_pub_ok, core_ok)
         ELSE CoreBranch(core_ok)

\* The outer handler missing: what the body raises reaches the caller
OutcomeUncaught(body) ==
    [raised |-> body.raises, result |-> ~body.raises, attempts |-> body.attempts]

\* "except Exception as e: ... return False" around the whole body
Outcome(body) ==
    [raised |-> FALSE, result |-> ~body.raises, attempts |-> body.attempts]

\* The messages the server accepted during a call
Accepted(subject, data, attempts) ==
    {[subject |-> subject, payload |-> Serialize(data).payload, via |-> attempts[i].via] :
        i \in {j \in DOMAIN attempts : attempts[j].ok}}

\* NATSService.publish_event(subject, data, persistent)
publish_event(subject, data, persistent, js_ctx_ok, js_pub_ok, core_ok) ==
    LET out == Outcome(PublishBody(data, persistent, js_ctx_ok, js_pub_ok, core_ok))
    IN  /\ bus' = bus \cup Accepted(subject, data, out.attempts)
        /\ last_call' = [op |-> "publish_event", subject |-> subject,
                         data |-> data, persistent |-> persistent,
                         js_ok |-> js_ctx_ok /\ js_pub_ok, core_ok |-> core_ok,
                         raised |-> out.raised, result |-> out.result,
                         attempts |-> out.attempts]

\* POST /nats/publish and every other caller of publish_event
PublishEvent ==
    \E subject \in Subjects, data \in Payloads, persistent \in BOOLEAN,
       js_ctx_ok \in BOOLEAN, js_pub_ok \in BOOLEAN, core_ok \in BOOLEAN :
        /\ publish_event(subject, data, persistent, js_ctx_ok, js_pub_ok, core_ok)
        /\ UNCHANGED <<store_vars, job_vars, requests, sub_vars, conn_vars, threads,
                       id_vars, event_publisher, polled>>

NextPublish ==
    \/ PublishEvent

SpecPublish == Init /\ [][NextPublish]_vars

Succeeded(attempts, via) ==
    \E i \in DOMAIN attempts : attempts[i].via = via /\ attempts[i].ok
Failed(attempts, via) ==
    \E i \in DOMAIN attempts : attempts[i].via = via /\ ~attempts[i].ok

\* C7: publish_event(..., persistent=True) returns True whenever the JetStream
\* send or the fallback core send succeeds, and returns False only when
\* neither does: for a payload that serializes, only when the JetStream
\* attempt failed and the core send was tried and failed as well.
C7_PersistentFallback ==
    (last_call.op = "publish_event" /\ last_call.persistent)
    => /\ (Succeeded(last_call.attempts, "jetstream")
           \/ Succeeded(last_call.attempts, "core")) => last_call.result = TRUE
       /\ (last_call.data.json_serializable /\ (last_call.js_ok \/ last_call.core_ok))
             => last_call.result = TRUE
       /\ (last_call.result = FALSE /\ last_call.data.json_serializable)
             => /\ ~last_call.js_ok
                /\ Failed(last_call.attempts, "core")
       /\ last_call.result = FALSE
             => /\ ~Succeeded(last_call.attempts, "jetstream")
                /\ ~Succeeded(last_call.attempts, "core")

C7_Witness ==
    /\ last_call.op = "publish_event"
    /\ last_call.persistent
    /\ ~last_call.js_ok
    /\ last_call.result = TRUE
    /\ Succeeded(last_call.attempts, "core")
    /\ \E m \in bus : m.via = "core" /\ m.subject = last_call.subject

\* C8: publish_event never propagates an exception: whatever fails
\* (serialization, JetStream context, JetStream send, core send), for both
\* values of persistent, the call returns a boolean.
C8_PublishNeverRaises ==
    last_call.op = "publish_event"
    => /\ last_call.raised = FALSE
       /\ last_call.result \in BOOLEAN

C8_Witness ==
    /\ last_call.op = "publish_event"
    /\ last_call.persistent
    /\ ~last_call.js_ok
    /\ ~last_call.core_ok
    /\ last_call.data.json_serializable
    /\ last_call.result = FALSE
    /\ last_call.raised = FALSE

----------------------------------------------------------------------------
(* services/cv_service.py, api/v1/cv.py, services/cv_extraction_service.py *)
(* An upload request runs CVService.upload_cv: validate, store the file,   *)
(* await the agent run, answer.  While the agent run is awaited the agent  *)
(* invokes the tools, which report stages to the status store when they    *)
(* know a session id.                                                      *)

MaxFileSizeMB == 10
FileSizesMB == {2, 11}
ContentTypes == {"application/pdf", "text/plain"}
ALLOWED_FILE_TYPES ==
    {"application/pdf", "application/msword",
     "application/vnd.openxmlformats-officedocument.wordprocessingml.document"}

\* What Runner.run can raise: a tripped input guardrail, or any other error
AgentErrors ==
    {"Guardrail InputGuardrail triggered tripwire", "Tripwire raised by tool",
     "TimeoutError: timed out"}

\* str(agent_error), cut into the pieces the handler's searches can tell apart
ErrorText(err) ==
    CASE err = "Guardrail InputGuardrail triggered tripwire"
           -> <<"Guardrail", " ", "Input", "Guardrail", " triggered ", "tripwire">>
      [] err = "Tripwire raised by tool"
           -> <<"Tripwire", " raised by tool">>
      [] OTHER -> <<"TimeoutError: timed out">>

\* str.lower() of one piece
lower(piece) ==
    CASE piece = "Guardrail" -> "guardrail"
      [] piece = "Tripwire" -> "tripwire"
      [] piece = "Input" -> "input"
      [] piece = "TimeoutError: timed out" -> "timeouterror: timed out"
      [] OTHER -> piece

\* needle in str(agent_error).lower()
InLowered(needle, err) ==
    \E i \in 1..Len(ErrorText(err)) : lower(ErrorText(err)[i]) = needle

\* Only the first of the two searches
MentionsGuardrailWordOnly(err) == InLowered("guardrail", err)

\* "guardrail" in str(e).lower() or "tripwire" in str(e).lower()
MentionsGuardrail(err) == InLowered("guardrail", err) \/ InLowered("tripwire", err)

SetJob(j, rec) == [jobs EXCEPT ![j] = rec]

\* CVUploadResponse(...): session_id keeps its default, None
CVUploadResponse(message, processing_status) ==
    [kind |-> "CVUploadResponse", message |-> message,
     processing_status |-> processing_status, session_id |-> NoSessionId]

HTTPException(status_code, detail) ==
    [kind |-> "HTTPException", status_code |-> status_code, detail |-> detail]

\* POST /cvs: create_cv calls upload_cv(file, background_tasks), two arguments
\* for a method that takes one: the call raises TypeError before upload_cv runs
CreateCv ==
    \E j \in Jobs, content_type \in ContentTypes, size \in FileSizesMB :
        /\ jobs[j].pc = "idle"
        /\ jobs' = SetJob(j, [jobs[j] EXCEPT !.pc = "done", !.outcome = "type_error"])
        /\ responses' = [responses EXCEPT ![j] = [kind |-> "TypeError"]]
        /\ last_call' = [op |-> "create_cv", job |-> j,
                         content_type |-> content_type, size |-> size]
        /\ UNCHANGED <<store_vars, bus_vars, conn_vars, threads, cv_table,
                       current_session_id, tool_calls, writers, id_vars,
                       event_publisher, polled>>

\* CVService.upload_cv(file) up to the await of Runner.run
UploadCvStart ==
    \E j \in Jobs, content_type \in ContentTypes, size \in FileSizesMB,
       db_ok \in BOOLEAN :
        /\ jobs[j].pc = "idle"
        /\ last_call' = [op |-> "upload_cv", job |-> j,
                         content_type |-> content_type, size |-> size]
        /\ IF content_type \notin ALLOWED_FILE_TYPES
           THEN /\ responses' = [responses EXCEPT ![j] =
                       HTTPException(400, "Only PDF and Word documents are allowed")]
                /\ jobs' = SetJob(j, [jobs[j] EXCEPT !.pc = "done", !.outcome = "rejected"])
                /\ UNCHANGED cv_table
           ELSE IF size > MaxFileSizeMB
           THEN /\ responses' = [responses EXCEPT ![j] =
                       HTTPException(400, "File size exceeds 10MB limit")]
                /\ jobs' = SetJob(j, [jobs[j] EXCEPT !.pc = "done", !.outcome = "rejected"])
                /\ UNCHANGED cv_table
           ELSE IF ~db_ok
           THEN /\ responses' = [responses EXCEPT ![j] = HTTPException(500, "Upload failed")]
                /\ jobs' = SetJob(j, [jobs[j] EXCEPT !.pc = "done", !.outcome = "upload_failed"])
                /\ UNCHANGED cv_table
           ELSE /\ cv_table' = Append(cv_table, [original_filename |-> j, processed |-> FALSE])
                /\ jobs' = SetJob(j, [jobs[j] EXCEPT !.pc = "agent_run",
                                                     !.cv_id = Len(cv_table) + 1])
                /\ UNCHANGED responses
        /\ UNCHANGED <<store_vars, bus_vars, conn_vars, threads, current_session_id,
                       tool_calls, writers, id_vars, event_publisher, polled>>

\* set_current_session_id(session_id)
SetCurrentSessionId ==
    \E s \in Sessions :
        /\ current_session_id # s
        /\ current_session_id' = s
        /\ last_call' = [op |-> "set_current_session_id", session |-> s]
        /\ UNCHANGED <<store_vars, bus_vars, conn_vars, threads, jobs, responses,
                       cv_table, tool_calls, writers, id_vars, event_publisher, polled>>

\* A Python value used as a condition: None and "" are false
Truthy(session) == session # NoSessionId /\ session # ""

\* A tool's "if current_session: log_status_update(...)"
ReportStage(current_session, stage, details) ==
    IF Truthy(current_session)
    THEN update_status(current_session, stage, details)
    ELSE UNCHANGED <<status_storage, recorded, last_update, calls>>

\* Job j's tool recorded under the id get_current_session_id() returned
NoteWriter(j, from_global, current_session) ==
    writers' = IF from_global /\ Truthy(current_session)
               THEN [writers EXCEPT ![current_session] = @ \cup {j}]
               ELSE writers

\* What the body of a tool's try block can raise
ToolErrors == {"none", "FileNotFoundError", "ValueError"}

\* prepare_cv_file_for_processing: "except Exception as e" returns the
\* structured result
PrepareOutcome(error) ==
    [raised |-> FALSE,
     status |-> IF error = "none" THEN "ready_for_processing"
                ELSE "preparation_failed"]

\* The try block of extract_cv_text_with_responses_api: the file is looked up
\* before the upload, the upload comes before the parsing call
ExtractError(file_found, upload_ok, parse_ok) ==
    IF ~file_found THEN "FileNotFoundError"
    ELSE IF ~upload_ok \/ ~parse_ok THEN "Exception"
    ELSE "none"

\* Only "except FileNotFoundError", anything else left to the caller
ExtractOutcomeOnlyFileNotFound(error) ==
    [raised |-> error = "Exception",
     status |-> CASE error = "none" -> "completed"
                  [] error = "FileNotFoundError" -> "file_not_found"
                  [] OTHER -> ""]

\* extract_cv_text_with_responses_api: "except FileNotFoundError" and
\* "except Exception" return the structured results
ExtractOutcome(error) ==
    [raised |-> FALSE,
     status |-> CASE error = "none" -> "completed"
                  [] error = "FileNotFoundError" -> "file_not_found"
                  [] OTHER -> "failed"]

\* prepare_cv_file_for_processing(uploaded_file_path), invoked by the agent
ToolPrepare ==
    \E j \in Jobs, error \in ToolErrors :
        /\ jobs[j].pc = "agent_run"
        /\ tool_calls < MaxToolCalls
        /\ tool_calls' = tool_calls + 1
        /\ ReportStage(current_session_id, "file_preparation",
                       "Preparing file for processing")
        /\ NoteWriter(j, TRUE, current_session_id)
        /\ last_call' = [op |-> "prepare_cv_file_for_processing", job |-> j,
                         error |-> error,
                         raised |-> PrepareOutcome(error).raised,
                         result |-> PrepareOutcome(error).status]
        /\ UNCHANGED <<now, bus_vars, conn_vars, threads, jobs, responses, cv_table,
                       current_session_id, id_vars, event_publisher, polled>>

\* extract_cv_text_with_responses_api(pdf_file_path, focus, session_id) up to
\* the await of client.files.create, or to its return when the file is missing
ToolExtractStart ==
    \E j \in Jobs, session_id \in Sessions \cup {""}, file_found \in BOOLEAN :
        LET current_session == IF Truthy(session_id) THEN session_id
                               ELSE current_session_id
        IN  /\ jobs[j].pc = "agent_run"
            /\ tool_calls < MaxToolCalls
            /\ tool_calls' = tool_calls + 1
            /\ ReportStage(current_session, "openai_upload",
                           "Uploading file to AI system")
            /\ NoteWriter(j, ~Truthy(session_id), current_session)
            /\ IF file_found
               THEN /\ jobs' = SetJob(j, [jobs[j] EXCEPT
                                            !.pc = "extract_upload",
                                            !.tool_session = current_session,
                                            !.from_global = ~Truthy(session_id)])
                    /\ last_call' = [op |-> "extract_cv_text_with_responses_api",
                                     job |-> j, error |-> "pending"]
               ELSE /\ UNCHANGED jobs
                    /\ last_call' =
                         [op |-> "extract_cv_text_with_responses_api", job |-> j,
                          error |-> ExtractError(FALSE, TRUE, TRUE),
                          raised |-> ExtractOutcome(
                                         ExtractError(FALSE, TRUE, TRUE)).raised,
                          result |-> ExtractOutcome(
                                         ExtractError(FALSE, TRUE, TRUE)).status]
            /\ UNCHANGED <<now, bus_vars, conn_vars, threads, responses, cv_table,
                           current_session_id, id_vars, event_publisher, polled>>

\* ... and from the upload's completion to the tool's return
ToolExtractFinish ==
    \E j \in Jobs, upload_ok \in BOOLEAN, parse_ok \in BOOLEAN :
        /\ jobs[j].pc = "extract_upload"
        /\ IF upload_ok
           THEN /\ ReportStage(jobs[j].tool_session, "cv_parsing",
                               "AI is analyzing your CV content")
                /\ NoteWriter(j, jobs[j].from_global, jobs[j].tool_session)
           ELSE UNCHANGED <<status_storage, recorded, last_update, calls, writers>>
        /\ jobs' = SetJob(j, [jobs[j] EXCEPT !.pc = "agent_run", !.tool_session = "",
                                             !.from_global = FALSE])
        /\ last_call' = [op |-> "extract_cv_text_with_responses_api", job |-> j,
                         error |-> ExtractError(TRUE, upload_ok, parse_ok),
                         raised |-> ExtractOutcome(
                                        ExtractError(TRUE, upload_ok, parse_ok)).raised,
                         result |-> ExtractOutcome(
                                        ExtractError(TRUE, upload_ok, parse_ok)).status]
        /\ UNCHANGED <<now, bus_vars, conn_vars, threads, responses, cv_table,
                       current_session_id, tool_calls, id_vars, event_publisher, polled>>

\* Runner.run returned: every stage of the agent run succeeded
UploadCvAgentReturned ==
    \E j \in Jobs :
        /\ jobs[j].pc = "agent_run"
        /\ jobs' = SetJob(j, [jobs[j] EXCEPT !.pc = "done", !.outcome = "returned"])
        /\ responses' = [responses EXCEPT ![j] =
               CVUploadResponse(
                   "CV uploaded and analyzed successfully! Our AI has processed your CV.",
                   "completed")]
        /\ last_call' = [op |-> "upload_cv.return", job |-> j]
        /\ UNCHANGED <<store_vars, bus_vars, conn_vars, threads, cv_table,
                       current_session_id, tool_calls, writers, id_vars,
                       event_publisher, polled>>

\* Runner.run raised: "except Exception as agent_error"
UploadCvAgentRaised ==
    \E j \in Jobs, agent_error \in AgentErrors :
        /\ jobs[j].pc = "agent_run"
        /\ jobs' = SetJob(j, [jobs[j] EXCEPT !.pc = "done", !.outcome = agent_error])
        /\ responses' = [responses EXCEPT ![j] =
               IF MentionsGuardrail(agent_error)
               THEN CVUploadResponse(
                        "File uploaded successfully, but our AI determined this may not be a standard CV format. We'll review it manually.",
                        "needs_review")
               ELSE CVUploadResponse(
                        "File uploaded successfully, but our AI analysis encountered an issue. We'll review it manually.",
                        "manual_review")]
        /\ last_call' = [op |-> "upload_cv.return", job |-> j]
        /\ UNCHANGED <<store_vars, bus_vars, conn_vars, threads, cv_table,
                       current_session_id, tool_calls, writers, id_vars,
                       event_publisher, polled>>

NextJob ==
    \/ CreateCv
    \/ UploadCvStart
    \/ SetCurrentSessionId
    \/ ToolPrepare
    \/ ToolExtractStart
    \/ ToolExtractFinish
    \/ UploadCvAgentReturned
    \/ UploadCvAgentRaised

SpecJob == Init /\ [][NextJob]_vars

\* upload_cv on its own: the agent run as one step that returns or raises
NextUpload ==
    \/ UploadCvStart
    \/ UploadCvAgentReturned
    \/ UploadCvAgentRaised

SpecUpload == Init /\ [][NextUpload]_vars

\* One upload's agent run invoking the tools
NextTools ==
    \/ UploadCvStart
    \/ SetCurrentSessionId
    \/ ToolPrepare
    \/ ToolExtractStart
    \/ ToolExtractFinish

SpecTools == Init /\ [][NextTools]_vars

\* The session a finished upload told its caller about has this current status
SessionStatusIs(j, stage, progress) ==
    /\ responses[j].session_id # NoSessionId
    /\ get_current_status(responses[j].session_id) # None
    /\ get_current_status(responses[j].session_id).stage = stage
    /\ get_current_status(responses[j].session_id).progress = progress

CompletedEventPublished(session_id, success) ==
    \E m \in bus :
        /\ m.subject = "events.cv.processing.completed"
        /\ m.payload = <<"utf-8", "json",
                         [session_id |-> session_id, success |-> success]>>

\* C1: when a submission returns successfully, its response carries a session
\* id and that id already resolves in the status store.
C1_SessionResolvableOnReturn ==
    \A j \in Jobs :
        responses[j].kind = "CVUploadResponse"
        => /\ responses[j].session_id # NoSessionId
           /\ get_current_status(responses[j].session_id) # None

\* C9: a job whose agent run raised ends with current status ERROR, progress 0
\* and the exception text in details, and a persistent "processing completed"
\* event with success = false was published for it.
C9_FailedJobRecordsError ==
    \A j \in Jobs :
        (jobs[j].pc = "done" /\ jobs[j].outcome \in AgentErrors)
        => /\ SessionStatusIs(j, "error", 0)
           /\ get_current_status(responses[j].session_id).details = jobs[j].outcome
           /\ CompletedEventPublished(responses[j].session_id, FALSE)

\* C10: a job whose stages all succeeded has, once it is over, current status
\* COMPLETED with progress 100, and a persistent "processing completed" event
\* with success = true was published for it.
C10_SucceededJobCompleted ==
    \A j \in Jobs :
        (jobs[j].pc = "done" /\ jobs[j].outcome = "returned")
        => /\ SessionStatusIs(j, "completed", 100)
           /\ CompletedEventPublished(responses[j].session_id, TRUE)

----------------------------------------------------------------------------
(* app_agents/cv_agents.py: cv_validation_guardrail                        *)
(* The input is the text handed to the manager agent, as the fragments it  *)
(* is made of; a confidence score is counted in tenths.  A classifier run  *)
(* is described by what Runner.run and final_output_as do during the call. *)

InputFragments == {"CV", "/tmp/upload", "invoice", "hello"}
Inputs == SUBSET InputFragments

\* str(input_data).lower(), fragment by fragment
Lower(fragment) == IF fragment = "CV" THEN "cv" ELSE fragment

obvious_cv_indicators ==
    {".pdf", ".doc", ".docx", "cv", "resume", "curriculum vitae",
     "process this cv", "cv file", "resume file", "tmp", "temp"}

\* "indicator in fragment" for the fragments above
Contains(fragment, indicator) ==
    \/ fragment = indicator
    \/ fragment = "/tmp/upload" /\ indicator = "tmp"

\* any(indicator in input_str for indicator in obvious_cv_indicators)
has_cv_indicators(input_data) ==
    \E fragment \in input_data, indicator \in obvious_cv_indicators :
        Contains(Lower(fragment), indicator)

ConfidenceThreshold == 6
Confidences == {5, 6, 9}

\* What the classifier does during one call
ClassifierRuns ==
    [run_raises : BOOLEAN, convert_raises : BOOLEAN,
     is_valid_cv : BOOLEAN, confidence_score : Confidences]

CVValidationResult(is_valid_cv, confidence_score, document_type, recommended_action) ==
    [is_valid_cv |-> is_valid_cv, confidence_score |-> confidence_score,
     document_type |-> document_type, recommended_action |-> recommended_action]

GuardrailFunctionOutput(output_info, tripwire_triggered) ==
    [output_info |-> output_info, tripwire_triggered |-> tripwire_triggered]

\* final_output of the try block: the classifier's result, the result built
\* for an input without indicators, or an exception
FinalOutput(input_data, run) ==
    IF has_cv_indicators(input_data)
    THEN IF run.run_raises \/ run.convert_raises
         THEN [raises |-> TRUE, classifier_ran |-> TRUE]
         ELSE [raises |-> FALSE, classifier_ran |-> TRUE,
               value |-> CVValidationResult(run.is_valid_cv, run.confidence_score,
                                            "cv", "process")]
    ELSE [raises |-> FALSE, classifier_ran |-> FALSE,
          value |-> CVValidationResult(TRUE, 7, "cv", "process")]

\* The threshold before it was lowered: confidence_score >= 0.7
validation_passed_above_old_threshold(final_output) ==
    final_output.is_valid_cv /\ final_output.confidence_score > ConfidenceThreshold

\* "validation_passed = (final_output.is_valid_cv and
\* final_output.confidence_score >= 0.6)", in tenths
validation_passed(final_output) ==
    final_output.is_valid_cv /\ final_output.confidence_score >= ConfidenceThreshold

\* The except clause failing closed: the tripwire is triggered on an error
GuardrailOnErrorBlocks ==
    [raised |-> FALSE,
     result |-> GuardrailFunctionOutput(
                    CVValidationResult(FALSE, 0, "unknown", "reject"), TRUE)]

\* "except Exception as e:" build the permissive fallback and return it
GuardrailOnError ==
    [raised |-> FALSE,
     result |-> GuardrailFunctionOutput(
                    CVValidationResult(TRUE, 6, "unknown", "process"), FALSE)]

\* cv_validation_guardrail(ctx, agent, input_data)
cv_validation_guardrail(input_data, run) ==
    LET final_output == FinalOutput(input_data, run)
    IN  IF final_output.raises
        THEN GuardrailOnError
        ELSE [raised |-> FALSE,
              result |-> GuardrailFunctionOutput(
                             final_output.value,
                             ~validation_passed(final_output.value))]

\* The input guardrail of the manager agent runs on the agent's input
CvValidationGuardrail ==
    \E input_data \in Inputs, run \in ClassifierRuns :
        /\ last_call' = [op |-> "cv_validation_guardrail",
                         input_data |-> input_data, run |-> run,
                         classifier_ran |-> FinalOutput(input_data, run).classifier_ran,
                         raised |-> cv_validation_guardrail(input_data, run).raised,
                         result |-> cv_validation_guardrail(input_data, run).result]
        /\ UNCHANGED <<store_vars, bus_vars, conn_vars, threads, job_vars, id_vars,
                       event_publisher, polled>>

NextGuardrail ==
    \/ CvValidationGuardrail

SpecGuardrail == Init /\ [][NextGuardrail]_vars

\* C11: when the classifier raises inside the guardrail (Runner.run or the
\* conversion of its result fails), the guardrail raises nothing and returns
\* tripwire_triggered = False: the job is admitted.
C11_GuardrailFailsOpen ==
    (/\ last_call.op = "cv_validation_guardrail"
     /\ last_call.classifier_ran
     /\ last_call.run.run_raises \/ last_call.run.convert_raises)
    => /\ last_call.raised = FALSE
       /\ last_call.result.tripwire_triggered = FALSE
       /\ last_call.result.output_info.is_valid_cv

C11_Witness ==
    /\ last_call.op = "cv_validation_guardrail"
    /\ last_call.classifier_ran
    /\ ~last_call.run.run_raises
    /\ last_call.run.convert_raises
    /\ ~last_call.run.is_valid_cv
    /\ last_call.result.tripwire_triggered = FALSE
    /\ last_call.result.output_info.document_type = "unknown"

----------------------------------------------------------------------------
(* Concurrent jobs and the module-global current session id *)

\* C12: with two or more jobs running concurrently, every update a tool
\* records under the id it read from the module global was issued by that
\* session's own job: no session id receives such updates from two jobs.
C12_SingleWriterPerSession ==
    \A s \in Sessions : Cardinality(writers[s]) <= 1

----------------------------------------------------------------------------
(* The status store called from several threads.  The store holds no lock: *)
(* a thread can be preempted between two statements of update_status and   *)
(* of cleanup_old_sessions, and the statements of the other threads then   *)
(* run in between.  One step below is one statement of the method.         *)

MaxThreadCalls == 3

SetThread(t, rec) == [threads EXCEPT ![t] = rec]
InUpdate(t) == threads[t].pc \in {"update_create", "update_append"}

\* update_status up to "if session_id not in self._status_storage:"
ThreadUpdateCheck ==
    \E t \in Threads, s \in Sessions, stage \in BurstStages :
        /\ threads[t].pc = "idle"
        /\ calls + Cardinality({u \in Threads : InUpdate(u)}) < MaxThreadCalls
        /\ threads' = SetThread(t, [IdleThread EXCEPT
                          !.pc = IF s \notin DOMAIN status_storage
                                 THEN "update_create" ELSE "update_append",
                          !.session_id = s,
                          !.status_update = NewUpdate(stage, "")])
        /\ last_call' = [op |-> "update_status", thread |-> t, at |-> "check"]
        /\ UNCHANGED <<store_vars, bus_vars, conn_vars, job_vars, id_vars, event_publisher, polled>>

\* "self._status_storage[session_id] = []"
ThreadUpdateCreate ==
    \E t \in Threads :
        /\ threads[t].pc = "update_create"
        /\ status_storage' = Put(status_storage, threads[t].session_id, <<>>)
        /\ recorded' = IF threads[t].session_id \in DOMAIN recorded
                       THEN recorded
                       ELSE Put(recorded, threads[t].session_id, <<>>)
        /\ threads' = SetThread(t, [threads[t] EXCEPT !.pc = "update_append"])
        /\ last_call' = [op |-> "update_status", thread |-> t, at |-> "create"]
        /\ UNCHANGED <<now, last_update, calls, bus_vars, conn_vars, job_vars, id_vars,
                       event_publisher, polled>>

\* "self._status_storage[session_id].append(...)" and the trim, to the return;
\* the lookup raises KeyError when the session was removed in between
ThreadUpdateAppend ==
    \E t \in Threads :
        LET s == threads[t].session_id
            u == threads[t].status_update
        IN  /\ threads[t].pc = "update_append"
            /\ threads' = SetThread(t, IdleThread)
            /\ IF s \in DOMAIN status_storage
               THEN /\ status_storage' =
                           Put(status_storage, s, Trim(Append(status_storage[s], u)))
                    /\ recorded' = Put(recorded, s, Append(recorded[s], u))
                    /\ last_update' = Put(last_update, s, u)
                    /\ calls' = calls + 1
                    /\ last_call' = [op |-> "update_status", thread |-> t,
                                     at |-> "return", raised |-> FALSE]
               ELSE /\ last_call' = [op |-> "update_status", thread |-> t,
                                     at |-> "return", raised |-> TRUE]
                    /\ UNCHANGED <<status_storage, recorded, last_update, calls>>
            /\ UNCHANGED <<now, bus_vars, conn_vars, job_vars, id_vars, event_publisher, polled>>

\* cleanup_old_sessions up to the end of its first loop
ThreadSweepScan ==
    \E t \in Threads, max_age_hours \in 0..MaxAge :
        /\ threads[t].pc = "idle"
        /\ sessions_to_remove(max_age_hours) # {}
        /\ threads' = SetThread(t, [IdleThread EXCEPT
                          !.pc = "sweep_delete",
                          !.sessions_to_remove = sessions_to_remove(max_age_hours),
                          !.max_age_hours = max_age_hours])
        /\ last_call' = [op |-> "cleanup_old_sessions", thread |-> t, at |-> "scan"]
        /\ UNCHANGED <<store_vars, bus_vars, conn_vars, job_vars, id_vars, event_publisher, polled>>

\* One "del self._status_storage[session_id]" of the second loop; the order
\* of the list is the dict's, which the model does not track
ThreadSweepDelete ==
    \E t \in Threads :
        \E s \in threads[t].sessions_to_remove :
            LET rest == threads[t].sessions_to_remove \ {s}
            IN  /\ threads[t].pc = "sweep_delete"
                /\ IF s \in DOMAIN status_storage
                   THEN /\ status_storage' = Remove(status_storage, {s})
                        /\ recorded' = Remove(recorded, {s})
                        /\ threads' = SetThread(t,
                               IF rest = {} THEN IdleThread
                               ELSE [threads[t] EXCEPT !.sessions_to_remove = rest])
                        /\ last_call' = [op |-> "cleanup_old_sessions", thread |-> t,
                                         at |-> "del", session |-> s,
                                         max_age |-> threads[t].max_age_hours,
                                         raised |-> FALSE]
                   ELSE /\ threads' = SetThread(t, IdleThread)
                        /\ last_call' = [op |-> "cleanup_old_sessions", thread |-> t,
                                         at |-> "del", session |-> s,
                                         max_age |-> threads[t].max_age_hours,
                                         raised |-> TRUE]
                        /\ UNCHANGED <<status_storage, recorded>>
                /\ UNCHANGED <<now, last_update, calls, bus_vars, conn_vars, job_vars,
                               id_vars, event_publisher, polled>>

NextThreads ==
    \/ ThreadUpdateCheck
    \/ ThreadUpdateCreate
    \/ ThreadUpdateAppend
    \/ ThreadSweepScan
    \/ ThreadSweepDelete
    \/ GetProcessingSession
    \/ Tick

SpecThreads == Init /\ [][NextThreads]_vars

\* Every stored history is the last min(n, 20) updates recorded for its session
NoUpdateLost ==
    \A s \in DOMAIN status_storage :
        status_storage[s] = LastN(recorded[s], Min(Len(recorded[s]), 20))

\* A sweep removes a session only if its latest update is older than max_age
SweepDeletesOnlyOld ==
    \A s \in DOMAIN status_storage :
        (/\ s \notin DOMAIN status_storage'
         /\ last_call'.op = "cleanup_old_sessions"
         /\ status_storage[s] # <<>>)
        => Last(status_storage[s]).timestamp < now - last_call'.max_age

\* C13: for any interleaving of update_status calls, polls and a sweep running
\* in different threads, no recorded update is lost other than by the trim to
\* 20 entries, and the sweep never deletes a session whose most recent update
\* is younger than max_age at the moment of deletion.
C13_StoreSafeUnderThreads ==
    /\ []NoUpdateLost
    /\ [][SweepDeletesOnlyOld]_vars

\* C14: submission returns to the caller without waiting for the agent run:
\* when a job's Runner.run finishes, its caller already holds the response,
\* with processing_status 'processing_started'.
C14_SubmitReturnsBeforeAgentRunEnds ==
    [][\A j \in Jobs :
          (jobs[j].pc = "agent_run" /\ jobs'[j].pc = "done")
          => /\ responses[j].kind = "CVUploadResponse"
             /\ responses[j].processing_status = "processing_started"]_vars

\* The submission just made carried a file that input validation rejects
InvalidSubmission(call) ==
    /\ call.op \in {"create_cv", "upload_cv"}
    /\ \/ call.content_type \notin ALLOWED_FILE_TYPES
       \/ call.size > MaxFileSizeMB

\* C15: a submission whose content type is not allowed or whose size is above
\* 10 MB is answered at once with HTTP 400; no session id is issued, no status
\* update is recorded, nothing is persisted and no agent run is started.
C15_InvalidSubmissionRejected ==
    [][InvalidSubmission(last_call')
       => /\ responses'[last_call'.job].kind = "HTTPException"
          /\ responses'[last_call'.job].status_code = 400
          /\ jobs'[last_call'.job].pc = "done"
          /\ UNCHANGED <<store_vars, cv_table, current_session_id, bus>>]_vars

----------------------------------------------------------------------------
(* The sweep on its own: sessions are recorded and polled at some clock    *)
(* readings and cleanup_old_sessions runs between other calls, never       *)
(* during one.                                                             *)

\* The hours at which something happens
ClockReadings == {0, 1, 24, 25}

Advance ==
    \E t \in ClockReadings :
        /\ t > now
        /\ now' = t
        /\ UNCHANGED <<status_storage, recorded, last_update, calls, last_call,
                       bus_vars, conn_vars, threads, job_vars, id_vars,
                       event_publisher, polled>>

\* A job reports the stage it is in
SweepRecord ==
    \E s \in Sessions :
        /\ calls < MaxCalls
        /\ update_status(s, "cv_parsing", "")
        /\ last_call' = [op |-> "update_status", session |-> s,
                         result |-> NewUpdate("cv_parsing", "")]
        /\ UNCHANGED <<now, bus_vars, conn_vars, threads, job_vars, id_vars, event_publisher, polled>>

\* max_age_hours: the default, and small values
DefaultMaxAgeHours == 24
MaxAges == (0..MaxAge) \cup {DefaultMaxAgeHours}

SweepCleanup == Cleanup(MaxAges)

NextSweep ==
    \/ SweepRecord
    \/ Advance
    \/ SweepCleanup
    \/ GetProcessingSession

SpecSweep == Init /\ [][NextSweep]_vars

\* Hours since the latest update of a stored session
Age(s) == now - Last(status_storage[s]).timestamp

\* C16: cleanup_old_sessions(max_age) deletes exactly the sessions whose most
\* recent entry is older than max_age and leaves every other history as it
\* was: with max_age 24 a session last updated 25 hours ago is gone and one
\* updated 1 hour ago is kept.
C16_SweepDeletesExactlyOld ==
    [][(last_call'.op = "cleanup_old_sessions" /\ now' = now /\ calls' = calls)
       => \A s \in DOMAIN status_storage :
             IF Age(s) > last_call'.max_age
             THEN s \notin DOMAIN status_storage'
             ELSE /\ s \in DOMAIN status_storage'
                  /\ status_storage'[s] = status_storage[s]]_vars

C16_Witness ==
    /\ last_call.op = "cleanup_old_sessions"
    /\ last_call.max_age = 24
    /\ "s1" \notin DOMAIN status_storage
    /\ "s1" \in DOMAIN last_update
    /\ now - last_update["s1"].timestamp = 25
    /\ "s2" \in DOMAIN status_storage
    /\ Age("s2") = 1

----------------------------------------------------------------------------
(* Frame of the store's operations *)

\* C17: update_status and get_current_status remove no session, and
\* update_status(s, ...) leaves the history of every session other than s
\* unchanged.
C17_RecordAndCurrentLeaveOthersAlone ==
    [][/\ calls' = calls + 1
          => \A s \in DOMAIN status_storage :
                /\ s \in DOMAIN status_storage'
                /\ s # last_call'.session => status_storage'[s] = status_storage[s]
       /\ last_call'.op = "get_status_for_frontend"
          => status_storage' = status_storage]_vars

C17_Witness ==
    /\ last_call.op = "update_status"
    /\ last_call.result.timestamp = now
    /\ \E s \in DOMAIN status_storage :
          /\ s # last_call.session
          /\ Last(status_storage[s]).timestamp < now

----------------------------------------------------------------------------
(* services/nats_service.py: NATSService.request_response                  *)
(* A call serializes the request, awaits nc.request(subject, payload,      *)
(* timeout) and decodes the reply.  While the call waits, the transport    *)
(* delivers a reply, reports that nobody listens, fails, or lets the       *)
(* deadline pass; time is counted in seconds.                              *)

DefaultTimeout == 5
DemoTimeout == 2
Timeouts == {DemoTimeout, DefaultTimeout}
RequestSubjects == {"test.echo"}

\* response.data of a reply: empty, a JSON document, not JSON, not UTF-8
Replies ==
    {[bytes |-> "empty"],
     [bytes |-> "json", value |-> [echo |-> "Hello NATS!"]],
     [bytes |-> "not_json"],
     [bytes |-> "not_utf8"]}

\* A statement raising the given exception
Raises(error) == [raises |-> TRUE, error |-> error]

\* json.loads(response.data.decode("utf-8")): the value, or raises
Decode(reply) ==
    CASE reply.bytes = "json" -> [raises |-> FALSE, value |-> reply.value]
      [] reply.bytes = "not_utf8" -> Raises("UnicodeDecodeError")
      [] OTHER -> Raises("JSONDecodeError")

\* "if response and response.data: ... return result" and "return None"
AfterReply(reply) ==
    IF reply.bytes # "empty"
    THEN IF Decode(reply).raises
         THEN Decode(reply)
         ELSE [raises |-> FALSE, result |-> Decode(reply).value]
    ELSE [raises |-> FALSE, result |-> None]

\* The handler catching only the timeout: other errors reach the caller
RequestOutcomeTimeoutOnly(body) ==
    IF body.raises
    THEN [raised |-> body.error # "TimeoutError", result |-> None]
    ELSE [raised |-> FALSE, result |-> body.result]

\* "except Exception as e: ... return None" around the whole body
RequestOutcome(body) ==
    IF body.raises
    THEN [raised |-> FALSE, result |-> None]
    ELSE [raised |-> FALSE, result |-> body.result]

SetRequest(r, rec) == [requests EXCEPT ![r] = rec]

\* The call is over: what it returned or raised
Returned(call, event, out) ==
    [pc |-> "returned", subject |-> call.subject, data |-> call.data,
     timeout |-> call.timeout, elapsed |-> call.elapsed, event |-> event,
     raised |-> out.raised, result |-> out.result]

\* A retry loop around nc.request: at the deadline the request is sent again
OnTimeoutRetry(call) ==
    [call EXCEPT !.elapsed = 0]

\* nc.request raises TimeoutError at the deadline: the call returns None
OnTimeout(call) ==
    Returned(call, "timeout", RequestOutcome(Raises("TimeoutError")))

\* request_response(subject, data, timeout) up to the await of nc.request
RequestBegin ==
    \E r \in RequestSlots, subject \in RequestSubjects, data \in Payloads,
       timeout \in Timeouts :
        LET call == [pc |-> "waiting", subject |-> subject, data |-> data,
                     timeout |-> timeout, elapsed |-> 0]
        IN  /\ requests[r].pc \in {"idle", "returned"}
            /\ IF Serialize(data).raises
               THEN /\ requests' = SetRequest(r,
                           Returned(call, "not_serializable",
                                    RequestOutcome(Raises("TypeError"))))
                    /\ last_call' = [op |-> "request_response", slot |-> r,
                                     event |-> "not_serializable",
                                     raised |-> RequestOutcome(Raises("TypeError")).raised,
                                     result |-> RequestOutcome(Raises("TypeError")).result]
               ELSE /\ requests' = SetRequest(r, call)
                    /\ UNCHANGED last_call
            /\ UNCHANGED <<store_vars, bus, conn_vars, sub_vars, threads, job_vars,
                           id_vars, event_publisher, polled>>

\* A second passes while the call waits
RequestTick(r) ==
    /\ requests[r].pc = "waiting"
    /\ requests[r].elapsed < requests[r].timeout
    /\ requests' = SetRequest(r, [requests[r] EXCEPT !.elapsed = @ + 1])
    /\ UNCHANGED <<store_vars, last_call, bus, conn_vars, sub_vars, threads, job_vars,
                   id_vars, event_publisher, polled>>

\* A reply arrives before the deadline: nc.request returns it
RequestReply(r) ==
    \E reply \in Replies :
        LET out == RequestOutcome(AfterReply(reply))
        IN  /\ requests[r].pc = "waiting"
            /\ requests[r].elapsed < requests[r].timeout
            /\ requests' = SetRequest(r, Returned(requests[r], reply.bytes, out))
            /\ last_call' = [op |-> "request_response", slot |-> r,
                             event |-> reply.bytes,
                             raised |-> out.raised, result |-> out.result]
            /\ UNCHANGED <<store_vars, bus, conn_vars, sub_vars, threads, job_vars,
                           id_vars, event_publisher, polled>>

\* nc.request raises before the deadline: nobody listens, or the connection
\* is closed or lost
RequestFails(r) ==
    \E event \in {"NoRespondersError", "ConnectionClosedError"} :
        LET out == RequestOutcome(Raises(event))
        IN  /\ requests[r].pc = "waiting"
            /\ requests[r].elapsed < requests[r].timeout
            /\ requests' = SetRequest(r, Returned(requests[r], event, out))
            /\ last_call' = [op |-> "request_response", slot |-> r,
                             event |-> event,
                             raised |-> out.raised, result |-> out.result]
            /\ UNCHANGED <<store_vars, bus, conn_vars, sub_vars, threads, job_vars,
                           id_vars, event_publisher, polled>>

\* The deadline passes without a reply
RequestTimeout(r) ==
    /\ requests[r].pc = "waiting"
    /\ requests[r].elapsed = requests[r].timeout
    /\ requests' = SetRequest(r, OnTimeout(requests[r]))
    /\ last_call' = IF OnTimeout(requests[r]).pc = "returned"
                    THEN [op |-> "request_response", slot |-> r,
                          event |-> "timeout",
                          raised |-> OnTimeout(requests[r]).raised,
                          result |-> OnTimeout(requests[r]).result]
                    ELSE last_call
    /\ UNCHANGED <<store_vars, bus, conn_vars, sub_vars, threads, job_vars, id_vars,
                   event_publisher, polled>>

----------------------------------------------------------------------------
(* services/nats_service.py: subscribe_to_events and unsubscribe           *)
(* A subscription id joins the subject and id(subscription); the id of an  *)
(* object is any number no live subscription object has.                   *)

SubscribeSubjects == {"events.cv.*", "events.chat.*"}
QueueGroups == {NoSessionId, "workers"}
ObjectIds == 1..MaxSubs

\* f"{subject}_{id(subscription)}"
SubId(subject, object_id) == <<subject, "_", object_id>>
SubIds == {SubId(subject, o) : subject \in SubscribeSubjects, o \in ObjectIds}

LiveObjectIds == {subscribers[sub_id].object_id : sub_id \in DOMAIN subscribers}

\* subscribe_to_events(subject, handler, queue_group): the id, or the error
\* of nc.subscribe logged and raised again
SubscribeToEvents ==
    \E subject \in SubscribeSubjects, queue_group \in QueueGroups,
       object_id \in ObjectIds \ LiveObjectIds, subscribe_ok \in BOOLEAN :
        /\ IF subscribe_ok
           THEN /\ subscribers' = Put(subscribers, SubId(subject, object_id),
                                      [subject |-> subject, queue |-> queue_group,
                                       object_id |-> object_id, log |-> <<>>,
                                       crashed |-> FALSE])
                /\ issued' = issued \cup {SubId(subject, object_id)}
                /\ last_call' = [op |-> "subscribe_to_events", subject |-> subject,
                                 raised |-> FALSE,
                                 result |-> SubId(subject, object_id)]
           ELSE /\ UNCHANGED <<subscribers, issued>>
                /\ last_call' = [op |-> "subscribe_to_events", subject |-> subject,
                                 raised |-> TRUE]
        /\ UNCHANGED <<store_vars, bus, conn_vars, requests, retired, threads, job_vars,
                       id_vars, event_publisher, polled>>

\* unsubscribe(subscription_id)
Unsubscribe ==
    \E subscription_id \in SubIds, unsubscribe_ok \in BOOLEAN :
        /\ IF subscription_id \in DOMAIN subscribers
           THEN IF unsubscribe_ok
                THEN /\ subscribers' = Remove(subscribers, {subscription_id})
                     /\ retired' = retired \cup {subscription_id}
                     /\ last_call' = [op |-> "unsubscribe", id |-> subscription_id,
                                      tracked |-> TRUE, transport_ok |-> TRUE,
                                      raised |-> FALSE, result |-> TRUE]
                ELSE /\ UNCHANGED <<subscribers, retired>>
                     /\ last_call' = [op |-> "unsubscribe", id |-> subscription_id,
                                      tracked |-> TRUE, transport_ok |-> FALSE,
                                      raised |-> FALSE, result |-> FALSE]
           ELSE /\ UNCHANGED <<subscribers, retired>>
                /\ last_call' = [op |-> "unsubscribe", id |-> subscription_id,
                                 tracked |-> FALSE, transport_ok |-> unsubscribe_ok,
                                 raised |-> FALSE, result |-> FALSE]
        /\ UNCHANGED <<store_vars, bus, conn_vars, requests, issued, threads, job_vars,
                       id_vars, event_publisher, polled>>

NextRequest ==
    \/ RequestBegin
    \/ \E r \in RequestSlots : RequestTick(r)
    \/ \E r \in RequestSlots : RequestReply(r)
    \/ \E r \in RequestSlots : RequestFails(r)
    \/ \E r \in RequestSlots : RequestTimeout(r)

SpecRequest == Init /\ [][NextRequest]_vars

\* The clock advances and a due timer fires
SpecRequestLive ==
    /\ SpecRequest
    /\ \A r \in RequestSlots : WF_vars(RequestTick(r)) /\ WF_vars(RequestTimeout(r))

\* The messages a subscriber receives: a subject and the bytes of msg.data
MaxDeliveries == 2
MessageSubjects == {"events.cv.uploaded", "events.chat.message.created"}

\* A subject, or a subject pattern, as its dot-separated tokens
Tokens(subject) ==
    CASE subject = "events.cv.*" -> <<"events", "cv", "*">>
      [] subject = "events.chat.*" -> <<"events", "chat", "*">>
      [] subject = "events.cv.uploaded" -> <<"events", "cv", "uploaded">>
      [] subject = "events.chat.message.created"
            -> <<"events", "chat", "message", "created">>

\* The subscription's subject pattern covers the subject of the message
Matches(pattern, subject) ==
    /\ Len(Tokens(pattern)) = Len(Tokens(subject))
    /\ \A i \in 1..Len(Tokens(pattern)) :
        Tokens(pattern)[i] \in {"*", Tokens(subject)[i]}

\* "data = json.loads(msg.data.decode("utf-8"))" and "await handler(...)":
\* the error raised, if any, and how often the handler was entered
HandlerBody(msg, handler_raises) ==
    IF Decode(msg).raises
    THEN [raises |-> TRUE, error |-> Decode(msg).error, handler_calls |-> 0]
    ELSE IF handler_raises
         THEN [raises |-> TRUE, error |-> "HandlerError", handler_calls |-> 1]
         ELSE [raises |-> FALSE, error |-> "", handler_calls |-> 1]

MessageHandlerUncaught(body) ==
    [raised |-> body.raises, logged |-> FALSE, handler_calls |-> body.handler_calls]

\* "except Exception as e: logger.error(...)" around the body
MessageHandlerOutcome(body) ==
    [raised |-> FALSE, logged |-> body.raises, handler_calls |-> body.handler_calls]

\* message_handler(msg), the callback given to nc.subscribe
message_handler(msg, handler_raises) ==
    MessageHandlerOutcome(HandlerBody(msg, handler_raises))

RECURSIVE Delivered(_)
Delivered(ids) ==
    IF ids = {} THEN 0
    ELSE LET id == CHOOSE x \in ids : TRUE
         IN Len(subscribers[id].log) + Delivered(ids \ {id})

\* The client hands a message to the callback of a subscription whose subject
\* matches. A callback that raises into the client may or may not end the
\* subscription's delivery task.
Deliver ==
    \E sub_id \in DOMAIN subscribers, subject \in MessageSubjects, msg \in Replies,
       handler_raises \in BOOLEAN, task_survives \in BOOLEAN :
        /\ Delivered(DOMAIN subscribers) < MaxDeliveries
        /\ ~subscribers[sub_id].crashed
        /\ Matches(subscribers[sub_id].subject, subject)
        /\ LET out == message_handler(msg, handler_raises)
               entry == [bytes |-> msg.bytes, raised |-> out.raised,
                         logged |-> out.logged,
                         handler_calls |-> out.handler_calls]
           IN /\ subscribers' =
                    [subscribers EXCEPT
                        ![sub_id].log = Append(@, entry),
                        ![sub_id].crashed = out.raised /\ ~task_survives]
              /\ last_call' = [op |-> "message_handler", id |-> sub_id,
                               subject |-> subject, raised |-> out.raised]
        /\ UNCHANGED <<store_vars, bus, conn_vars, requests, issued, retired, threads,
                       job_vars, id_vars, event_publisher, polled>>

NextDeliver ==
    \/ SubscribeToEvents
    \/ Deliver

SpecDeliver == Init /\ [][NextDeliver]_vars

NextSubscribe ==
    \/ SubscribeToEvents
    \/ Unsubscribe

SpecSubscribe == Init /\ [][NextSubscribe]_vars

----------------------------------------------------------------------------
(* Claims about request_response, subscribe_to_events and unsubscribe *)

\* C18: request_response returns the decoded reply only when a reply with
\* non-empty, JSON-decodable data arrived before the timeout; on a timeout, a
\* transport error, an empty reply or an undecodable reply it returns None;
\* it never raises.
C18_RequestResponseResult ==
    \A r \in RequestSlots :
        requests[r].pc = "returned"
        => /\ requests[r].raised = FALSE
           /\ IF requests[r].event = "json" /\ requests[r].elapsed < requests[r].timeout
              THEN requests[r].result = [echo |-> "Hello NATS!"]
              ELSE requests[r].result = None

C18_Witness ==
    \E r \in RequestSlots :
        /\ requests[r].pc = "returned"
        /\ requests[r].event = "not_utf8"
        /\ requests[r].elapsed > 0
        /\ requests[r].result = None
        /\ requests[r].raised = FALSE

\* C19: every request_response call terminates: a call that waits for a reply
\* returns, and when no reply came it returns None once its deadline has
\* passed; no call stays pending.
C19_RequestTerminates ==
    \A r \in RequestSlots :
        (requests[r].pc = "waiting")
        ~> (/\ requests[r].pc = "returned"
            /\ requests[r].event = "timeout"
               => /\ requests[r].result = None
                  /\ requests[r].elapsed = requests[r].timeout)

C19_Witness ==
    \E r \in RequestSlots :
        /\ requests[r].pc = "returned"
        /\ requests[r].event = "timeout"
        /\ requests[r].timeout = DefaultTimeout
        /\ requests[r].elapsed = DefaultTimeout
        /\ requests[r].result = None

\* C20: no Event Bus operation (publish_event, request_response,
\* subscribe_to_events, unsubscribe) propagates an exception to its caller:
\* every failure becomes a boolean or None return.
C20_BusOperationsNeverRaise ==
    last_call.op \in {"publish_event", "request_response",
                      "subscribe_to_events", "unsubscribe"}
    => last_call.raised = FALSE

----------------------------------------------------------------------------
(* Claims about message delivery and the subscription registry *)

\* C21: a received message whose payload fails to deserialize, or whose
\* handler raises, is contained per message: the callback raises nothing, the
\* subscription stays active, and every message whose payload deserializes,
\* also one that follows a failed message, is passed to the handler once.
C21_FailuresContainedPerMessage ==
    \A sub_id \in DOMAIN subscribers :
        /\ ~subscribers[sub_id].crashed
        /\ \A i \in 1..Len(subscribers[sub_id].log) :
            LET entry == subscribers[sub_id].log[i]
            IN /\ entry.raised = FALSE
               /\ entry.handler_calls = IF entry.bytes = "json" THEN 1 ELSE 0

C21_Witness ==
    \E sub_id \in DOMAIN subscribers :
        /\ Len(subscribers[sub_id].log) = 2
        /\ subscribers[sub_id].log[1].logged
        /\ subscribers[sub_id].log[2].bytes = "json"
        /\ subscribers[sub_id].log[2].handler_calls = 1
        /\ ~subscribers[sub_id].crashed

\* C22: unsubscribe is idempotent: the first unsubscribe of a subscription id
\* that succeeds returns True and removes the id; every later unsubscribe of
\* that id, and every unsubscribe of an id never returned by
\* subscribe_to_events, returns False without calling the transport; the
\* registry holds exactly the ids returned by subscribe_to_events and not yet
\* unsubscribed successfully.
C22_UnsubscribeIdempotent ==
    /\ [](DOMAIN subscribers = issued \ retired)
    /\ [][last_call'.op = "unsubscribe"
          => /\ last_call'.result = TRUE
                => /\ last_call'.tracked
                   /\ last_call'.id \notin DOMAIN subscribers'
             /\ (last_call'.id \in retired \/ last_call'.id \notin issued)
                => /\ last_call'.result = FALSE
                   /\ ~last_call'.tracked]_vars

----------------------------------------------------------------------------
(* core/nats.py: the connection manager, and the health probe of            *)
(* api/v1/nats.py. A client is named by its position in clients; the entry  *)
(* holds whether it is open and what the server it reached offers.          *)

MaxConnects == 2

Streams == {"EVENTS", "AGENT_TASKS", "CV_PROCESSING", "TEST_EVENTS"}
\* The add_stream calls that fail: none, one, all
StreamFailures == {{}, {"EVENTS"}, Streams}

AccountInfoFailedUncaught == [raises |-> TRUE, added |-> {}]

\* "except Exception as e: logger.warning(...); return" after account_info
AccountInfoFailed == [raises |-> FALSE, added |-> {}]

\* _setup_streams(): the streams added; a failed add_stream is logged only
setup_streams(js, account_ok, failing) ==
    IF js = NoClient THEN [raises |-> FALSE, added |-> {}]
    ELSE IF ~account_ok THEN AccountInfoFailed
    ELSE [raises |-> FALSE, added |-> Streams \ failing]

\* The statements inside the try of connect(): the NATS() object is stored
\* first, then connected to the servers
ConnectBodyFlagFirst(conn, id, reachable, account_ok, failing) ==
    IF ~reachable
    THEN [raises |-> TRUE, conn |-> [conn EXCEPT !.nc = id, !.connected = TRUE],
          client |-> [state |-> "failed", account_ok |-> FALSE, streams |-> {}]]
    ELSE LET setup == setup_streams(id, account_ok, failing)
         IN [raises |-> setup.raises,
             conn |-> [conn EXCEPT !.nc = id, !.js = id, !.connected = TRUE],
             client |-> [state |-> "open", account_ok |-> account_ok,
                         streams |-> setup.added]]

ConnectBody(conn, id, reachable, account_ok, failing) ==
    IF ~reachable
    THEN [raises |-> TRUE, conn |-> [conn EXCEPT !.nc = id],
          client |-> [state |-> "failed", account_ok |-> FALSE, streams |-> {}]]
    ELSE LET setup == setup_streams(id, account_ok, failing)
         IN [raises |-> setup.raises,
             conn |-> [conn EXCEPT !.nc = id, !.js = id,
                                   !.connected = IF setup.raises THEN @ ELSE TRUE],
             client |-> [state |-> "open", account_ok |-> account_ok,
                         streams |-> setup.added]]

ConnectOutcomeSwallowed(body) == [body EXCEPT !.raises = FALSE]

\* "except Exception as e: logger.error(...); raise"
ConnectOutcome(body) == body

\* NATSConnection.connect()
connect(conn, id, reachable, account_ok, failing) ==
    ConnectOutcome(ConnectBody(conn, id, reachable, account_ok, failing))

\* init_nats(): connect, then the globals; against servers that answer
\* account_info as in account_oks and fail the add_stream calls in failures
InitNatsAgainst(account_oks, failures) ==
    \E reachable \in BOOLEAN, account_ok \in account_oks, failing \in failures :
        /\ Len(clients) < MaxConnects
        /\ LET out == connect(connection, Len(clients) + 1, reachable,
                              account_ok, failing)
           IN /\ connection' = out.conn
              /\ clients' = Append(clients, out.client)
              /\ IF out.raises
                 THEN UNCHANGED <<nats_client, jetstream>>
                 ELSE /\ nats_client' = out.conn.nc
                      /\ jetstream' = out.conn.js
              /\ last_call' = [op |-> "init_nats", reachable |-> reachable,
                               account_ok |-> account_ok, failing |-> failing,
                               raised |-> out.raises]
        /\ UNCHANGED <<store_vars, bus_vars, threads, job_vars, id_vars, event_publisher, polled>>

InitNats == InitNatsAgainst(BOOLEAN, StreamFailures)

ClosesWheneverClient(conn) == conn.nc # NoClient

\* "if self.nc and self.connected:"
Closes(conn) == conn.nc # NoClient /\ conn.connected

\* close_nats(): NATSConnection.disconnect()
CloseNats ==
    \E close_ok \in BOOLEAN :
        /\ IF Closes(connection)
           THEN IF close_ok
                THEN /\ clients' = [clients EXCEPT ![connection.nc].state = "closed"]
                     /\ connection' = [connection EXCEPT !.connected = FALSE]
                     /\ last_call' = [op |-> "close_nats", transport_called |-> TRUE,
                                      raised |-> FALSE]
                ELSE /\ UNCHANGED <<clients, connection>>
                     /\ last_call' = [op |-> "close_nats", transport_called |-> TRUE,
                                      raised |-> TRUE]
           ELSE /\ UNCHANGED <<clients, connection>>
                /\ last_call' = [op |-> "close_nats", transport_called |-> FALSE,
                                 raised |-> FALSE]
        /\ UNCHANGED <<store_vars, bus_vars, nats_client, jetstream, threads, job_vars,
                       id_vars, event_publisher, polled>>

\* get_nats()
get_nats ==
    IF nats_client = NoClient \/ ~connection.connected
    THEN [raises |-> TRUE, value |-> NoClient]
    ELSE [raises |-> FALSE, value |-> nats_client]

\* get_nats_safe()
get_nats_safe ==
    IF nats_client = NoClient \/ ~connection.connected
    THEN NoClient
    ELSE nats_client

\* nats_client.is_connected
is_connected(id) == clients[id].state = "open"

\* get_jetstream(): the context if account_info answers, else None
get_jetstream ==
    IF jetstream = NoClient THEN NoClient
    ELSE IF is_connected(jetstream) /\ clients[jetstream].account_ok
         THEN jetstream
         ELSE NoClient

\* nats_health_check(nats_client = get_nats_safe())
nats_health_check(client, publish_ok) ==
    IF client = NoClient \/ ~is_connected(client)
    THEN [status |-> "disconnected", connected |-> FALSE]
    ELSE IF publish_ok
         THEN [status |-> "healthy", connected |-> TRUE]
         ELSE [status |-> "error", connected |-> is_connected(client)]

GetNats ==
    /\ last_call' = [op |-> "get_nats", raised |-> get_nats.raises,
                     result |-> get_nats.value]
    /\ UNCHANGED <<store_vars, bus_vars, conn_vars, threads, job_vars, id_vars,
                   event_publisher, polled>>

GetNatsSafe ==
    /\ last_call' = [op |-> "get_nats_safe", raised |-> FALSE,
                     result |-> get_nats_safe]
    /\ UNCHANGED <<store_vars, bus_vars, conn_vars, threads, job_vars, id_vars,
                   event_publisher, polled>>

GetJetstream ==
    /\ last_call' = [op |-> "get_jetstream", raised |-> FALSE,
                     result |-> get_jetstream]
    /\ UNCHANGED <<store_vars, bus_vars, conn_vars, threads, job_vars, id_vars,
                   event_publisher, polled>>

NatsHealthCheck ==
    \E publish_ok \in BOOLEAN :
        /\ last_call' = [op |-> "nats_health_check", raised |-> FALSE,
                         result |-> nats_health_check(get_nats_safe, publish_ok)]
        /\ UNCHANGED <<store_vars, bus_vars, conn_vars, threads, job_vars, id_vars,
                       event_publisher, polled>>

NextConnection ==
    \/ InitNats
    \/ CloseNats
    \/ GetNats
    \/ GetNatsSafe
    \/ GetJetstream
    \/ NatsHealthCheck

SpecConnection == Init /\ [][NextConnection]_vars

----------------------------------------------------------------------------
(* Claims about the connection manager *)

\* C23: when no endpoint can be reached, a connect that starts from a
\* disconnected manager raises, connected stays false, init_nats leaves the
\* global client as it was (unset if it was unset), and afterwards get_nats
\* raises while get_nats_safe returns None.
C23_UnreachableConnectFails ==
    [][(/\ last_call'.op = "init_nats"
        /\ Len(clients') = Len(clients) + 1
        /\ ~last_call'.reachable
        /\ ~connection.connected)
       => /\ last_call'.raised
          /\ ~connection'.connected
          /\ nats_client' = nats_client
          /\ jetstream' = jetstream
          /\ get_nats'.raises
          /\ get_nats_safe' = NoClient]_vars

C23_Witness ==
    /\ last_call.op = "get_nats"
    /\ last_call.raised
    /\ Len(clients) = 1
    /\ clients[1].state = "failed"
    /\ nats_client = NoClient
    /\ ~connection.connected

\* C24: when the transport connection succeeds but the server has no
\* persistence capability (account_info fails, or adding streams fails),
\* connect completes without raising and with connected = True on an open
\* client, and get_nats hands that client out.
C24_DegradedConnectSucceeds ==
    (/\ last_call.op = "init_nats"
     /\ last_call.reachable
     /\ ~last_call.account_ok \/ last_call.failing # {})
    => /\ ~last_call.raised
       /\ connection.connected
       /\ connection.nc = Len(clients)
       /\ is_connected(connection.nc)
       /\ ~get_nats.raises
       /\ get_nats.value = connection.nc

C24_Witness ==
    /\ last_call.op = "init_nats"
    /\ last_call.reachable
    /\ ~last_call.account_ok
    /\ connection.connected
    /\ clients[connection.nc].streams = {}

\* C25: after a connect against a server without persistence capability the
\* manager's state records persistence as unavailable (it holds no persistence
\* context), and the health probe reports persistenceAvailable = false
\* together with connected = true.
C25_DegradedModeReported ==
    /\ (/\ connection.connected
        /\ connection.nc # NoClient
        /\ is_connected(connection.nc)
        /\ ~clients[connection.nc].account_ok)
       => connection.js = NoClient
    /\ (/\ last_call.op = "nats_health_check"
        /\ last_call.result.status = "healthy"
        /\ ~clients[get_nats_safe].account_ok)
       => /\ "persistenceAvailable" \in DOMAIN last_call.result
          /\ last_call.result.persistenceAvailable = FALSE
          /\ last_call.result.connected = TRUE

\* C26: disconnect is idempotent and safe when never connected: called before
\* any connect, or again after a completed disconnect, it makes no transport
\* call, raises nothing and leaves connected = False.
C26_DisconnectIdempotent ==
    [][(last_call'.op = "close_nats" /\ ~connection.connected)
       => /\ ~last_call'.transport_called
          /\ ~last_call'.raised
          /\ ~connection'.connected
          /\ clients' = clients]_vars

C26_Witness ==
    /\ last_call.op = "close_nats"
    /\ ~last_call.transport_called
    /\ Len(clients) = 1
    /\ clients[1].state = "closed"
    /\ ~connection.connected

\* C27: at every moment at most one transport connection opened by the
\* manager is open, and it is the one the manager refers to: no sequence of
\* connect and disconnect calls leaves an earlier connection open and no
\* longer referenced.
C27_AtMostOneOpenConnection ==
    \A i \in 1..Len(clients) :
        clients[i].state = "open" => i = connection.nc

----------------------------------------------------------------------------
(* services/cv_status_service.py: generate_session_id                      *)

MaxIds == 3

FileNames == {"", "cv.pdf", "resume.pdf"}
\* int(time.time() * 1000) as read by successive calls, counted from the
\* first reading
Milliseconds == {0, 1}
Salts == {1, 2}

\* hash(file_name) under the process's hash seed: an integer, equal for equal
\* strings, and for different strings equal or not in its last digits
hash(salt, file_name) ==
    CASE salt = 1 /\ file_name = "cv.pdf" -> 1234123456
      [] salt = 1 /\ file_name = "resume.pdf" -> 1152654321
      [] salt = 2 /\ file_name = "cv.pdf" -> 1305123456
      [] salt = 2 /\ file_name = "resume.pdf" -> 2017123456
      [] OTHER -> 0

SuffixLength == 6
RECURSIVE Pow10(_)
Pow10(n) == IF n = 0 THEN 1 ELSE 10 * Pow10(n - 1)

\* str(hash(file_name))[-6:] if file_name else "000000"
file_hash(salt, file_name) ==
    IF file_name = "" THEN 0 ELSE hash(salt, file_name) % Pow10(SuffixLength)

\* f"cv_{timestamp}_{file_hash}"
generate_session_id(timestamp, salt, file_name) ==
    <<"cv", "_", timestamp, "_", file_hash(salt, file_name)>>

\* One call; the clock never runs backwards between calls
GenerateSessionId ==
    \E file_name \in FileNames, timestamp \in Milliseconds,
       salt \in IF hash_salt = NoSalt THEN Salts ELSE {hash_salt} :
        /\ Len(minted) < MaxIds
        /\ \A i \in 1..Len(minted) : minted[i].timestamp <= timestamp
        /\ hash_salt' = IF file_name = "" THEN hash_salt ELSE salt
        /\ minted' = Append(minted,
                        [file_name |-> file_name, timestamp |-> timestamp,
                         id |-> generate_session_id(timestamp, salt, file_name)])
        /\ last_call' = [op |-> "generate_session_id", file_name |-> file_name,
                         result |-> generate_session_id(timestamp, salt, file_name)]
        /\ UNCHANGED <<store_vars, bus_vars, conn_vars, event_publisher,
                       threads, job_vars, polled>>

NextSessionIds ==
    \/ GenerateSessionId

SpecSessionIds == Init /\ [][NextSessionIds]_vars

\* C28: session ids are never reused: any two distinct calls to
\* generate_session_id, also two with the same file name within the same
\* millisecond, return different ids.
C28_SessionIdsNeverReused ==
    \A i, j \in 1..Len(minted) :
        i # j => minted[i].id # minted[j].id

----------------------------------------------------------------------------
(* services/cv_nats_integration.py: CVEventIntegration                      *)

EventKinds == {"cv_uploaded", "cv_processing_started", "cv_processing_completed"}

\* The method of CVEventIntegration that reports the event
OnEvent(kind) ==
    CASE kind = "cv_uploaded" -> "on_cv_uploaded"
      [] kind = "cv_processing_started" -> "on_cv_processing_started"
      [] kind = "cv_processing_completed" -> "on_cv_processing_completed"

\* EventPublisher.cv_uploaded, cv_processing_started, cv_processing_completed:
\* the subject and the data handed to publish_event, persistent=True
EventSubject(kind) ==
    CASE kind = "cv_uploaded" -> "events.cv.uploaded"
      [] kind = "cv_processing_started" -> "events.cv.processing.started"
      [] kind = "cv_processing_completed" -> "events.cv.processing.completed"

EventData(kind) ==
    [body |->
        CASE kind = "cv_uploaded" -> [cv_id |-> 1, filename |-> "cv.pdf"]
          [] kind = "cv_processing_started"
                -> [cv_id |-> 1, session_id |-> "s1", status |-> "processing"]
          [] kind = "cv_processing_completed"
                -> [cv_id |-> 1, session_id |-> "s1", status |-> "completed",
                    success |-> TRUE],
     json_serializable |-> TRUE]

\* _get_event_publisher() without "if self.event_publisher is None"
get_event_publisher_uncached(publisher, creation_ok) ==
    IF get_nats.raises \/ ~creation_ok
    THEN [event_publisher |-> NoClient, result |-> NoClient]
    ELSE [event_publisher |-> get_nats.value, result |-> get_nats.value]

\* _get_event_publisher(): the cached publisher, or one made around
\* get_nats(); None when get_nats or a constructor raises
get_event_publisher(publisher, creation_ok) ==
    IF publisher = NoClient
    THEN IF get_nats.raises \/ ~creation_ok
         THEN [event_publisher |-> NoClient, result |-> NoClient]
         ELSE [event_publisher |-> get_nats.value, result |-> get_nats.value]
    ELSE [event_publisher |-> publisher, result |-> publisher]

\* The statements inside the try of an on_... method. The publisher sends
\* through the client it was created with.
EventBody(kind, creation_ok, publish_raises, js_ctx_ok, js_pub_ok, core_ok) ==
    LET got == get_event_publisher(event_publisher, creation_ok)
    IN  IF got.result = NoClient
        THEN [raises |-> FALSE, event_publisher |-> got.event_publisher,
              client |-> got.result, success |-> FALSE, attempts |-> <<>>]
        ELSE IF publish_raises
             THEN [raises |-> TRUE, event_publisher |-> got.event_publisher,
                   client |-> got.result, success |-> FALSE, attempts |-> <<>>]
             ELSE LET out == Outcome(PublishBody(EventData(kind), TRUE,
                                        js_ctx_ok /\ is_connected(got.result),
                                        js_pub_ok,
                                        core_ok /\ is_connected(got.result)))
                  IN [raises |-> out.raised, event_publisher |-> got.event_publisher,
                      client |-> got.result,
                      success |-> out.result, attempts |-> out.attempts]

\* The events published in a run of the model
MaxEvents == 2

EventOutcomeUncaught(body) == [raised |-> body.raises]

\* "except Exception as e: logger.error(...)" around the body
EventOutcome(body) == [raised |-> FALSE]

\* on_cv_uploaded, on_cv_processing_started, on_cv_processing_completed
OnCvEvent ==
    \E kind \in EventKinds, creation_ok \in BOOLEAN, publish_raises \in BOOLEAN,
       js_ctx_ok \in BOOLEAN, js_pub_ok \in BOOLEAN, core_ok \in BOOLEAN :
        LET body == EventBody(kind, creation_ok, publish_raises,
                              js_ctx_ok, js_pub_ok, core_ok)
        IN /\ Cardinality(bus) < MaxEvents
           /\ event_publisher' = body.event_publisher
           /\ bus' = bus \cup Accepted(EventSubject(kind), EventData(kind),
                                       body.attempts)
           /\ last_call' = [op |-> OnEvent(kind),
                            creation_ok |-> creation_ok,
                            client |-> body.client,
                            publish_raised |-> body.raises,
                            raised |-> EventOutcome(body).raised]
           /\ UNCHANGED <<store_vars, requests, sub_vars, conn_vars, id_vars,
                          threads, job_vars, polled>>

\* init_nats() against a server with JetStream
EventsInitNats == InitNatsAgainst({TRUE}, {{}})

NextEvents ==
    \/ EventsInitNats
    \/ CloseNats
    \/ OnCvEvent

SpecEvents == Init /\ [][NextEvents]_vars

\* C29: event publication never fails the pipeline caller: whatever the state
\* of the messaging system (never connected, disconnected, no publisher
\* created, publish returning False or raising), on_cv_uploaded,
\* on_cv_processing_started and on_cv_processing_completed return without
\* raising.
C29_EventHooksNeverRaise ==
    last_call.op \in {OnEvent(kind) : kind \in EventKinds}
    => last_call.raised = FALSE

C29_Witness ==
    /\ last_call.op = "on_cv_processing_completed"
    /\ last_call.publish_raised
    /\ ~connection.connected
    /\ event_publisher # NoClient
    /\ last_call.raised = FALSE

----------------------------------------------------------------------------
(* Claims about the order of the stage updates of a job *)

\* class CVProcessingStage(Enum): the members in the order they are declared
StageOrder ==
    <<"upload_started", "file_validation", "guardrail_validation",
      "file_preparation", "openai_upload", "cv_parsing", "profile_enrichment",
      "skills_extraction", "gap_analysis", "finalizing", "completed", "error">>

StageIndex(stage) == CHOOSE i \in DOMAIN StageOrder : StageOrder[i] = stage

\* update_status was just called on some session with this stage
Reported(stage) ==
    \E s \in Sessions : Updated(s) /\ last_update'[s].stage = stage

\* C30: within one job the stage updates are recorded in enumeration order,
\* and each stage's update is recorded before that stage's work begins:
\* FILE_PREPARATION when the file is prepared, OPENAI_UPLOAD when the upload
\* starts, CV_PARSING when the upload is done and the parsing call is made.
C30_StagesInOrderBeforeWork ==
    /\ []((\E j \in Jobs : \A k \in Jobs \ {j} : jobs[k].pc = "idle")
          => \A s \in DOMAIN recorded :
                \A i \in 1..(Len(recorded[s]) - 1) :
                    StageIndex(recorded[s][i].stage)
                        <= StageIndex(recorded[s][i + 1].stage))
    /\ [][/\ (/\ last_call'.op = "prepare_cv_file_for_processing"
              /\ tool_calls' = tool_calls + 1)
             => Reported("file_preparation")
          /\ (/\ last_call'.op = "extract_cv_text_with_responses_api"
              /\ tool_calls' = tool_calls + 1)
             => Reported("openai_upload")
          /\ (/\ last_call'.op = "extract_cv_text_with_responses_api"
              /\ tool_calls' = tool_calls
              /\ jobs' # jobs
              /\ last_call'.result = "completed")
             => Reported("cv_parsing")]_vars

----------------------------------------------------------------------------
(* A client polling GET /cv-processing-sessions/{session_id}                *)

\* The client polls, and keeps the status and progress of the latest response
ClientPoll ==
    \E s \in Sessions :
        /\ last_call' = [op |-> "get_status_for_frontend", session |-> s,
                         result |-> get_status_for_frontend(s)]
        /\ polled' = [polled EXCEPT ![s] =
                        <<[status |-> get_status_for_frontend(s).status,
                           progress |-> get_status_for_frontend(s).progress]>>]
        /\ UNCHANGED <<store_vars, bus_vars, conn_vars, threads, job_vars, id_vars,
                       event_publisher>>

NextPoll ==
    \/ LogStatusUpdate
    \/ ClientPoll
    \/ ClearSession
    \/ CleanupOldSessions
    \/ Tick

SpecPoll == Init /\ [][NextPoll]_vars

\* C31: for any interleaving of record, sweep and poll operations, the
\* successive responses a client receives from get_status_for_frontend for one
\* session id show a monotonic progression: the reported progress never
\* decreases between two successive polls unless the stage becomes ERROR.
C31_PolledProgressMonotonic ==
    [][\A s \in Sessions :
          (polled[s] # <<>> /\ polled'[s] # polled[s])
          => \/ polled'[s][1].progress >= polled[s][1].progress
             \/ polled'[s][1].status = "error"]_vars

----------------------------------------------------------------------------
(* Claims about sessions whose job has stopped *)

\* Every job that recorded on session s under the current session id has
\* ended, and the session's current stage is not terminal
Abandoned(s) ==
    /\ s \in DOMAIN status_storage
    /\ writers[s] # {}
    /\ \A j \in writers[s] : jobs[j].pc = "done"
    /\ get_current_status(s) # None
    /\ get_current_status(s).stage \notin {"completed", "error"}

\* C32: if a job's task stops before reaching a terminal stage, no component
\* invents a terminal state and nothing else writes to its session: the
\* session's status stays at the last recorded non-terminal stage, unchanged,
\* until a sweep removes the session.
C32_AbandonedSessionUnchanged ==
    [][\A s \in Sessions :
          (Abandoned(s) /\ s \in DOMAIN status_storage')
          => status_storage'[s] = status_storage[s]]_vars

----------------------------------------------------------------------------
(* Claims about the stage table *)

NextStages ==
    \/ LogStatusUpdate
    \/ ClearSession

SpecStages == Init /\ [][NextStages]_vars

\* UPLOAD_STARTED through COMPLETED, in the order of the enumeration
HappyPath == SubSeq(StageOrder, 1, Len(StageOrder) - 1)

\* C33: for every stage of the enumeration update_status returns the message
\* and progress of the static table, never the 'Processing...' / 50 fallback;
\* along the happy path UPLOAD_STARTED through COMPLETED the table's progress
\* never decreases, starts at 5 and ends at 100, and ERROR is mapped to 0.
C33_StageTableUsedAndMonotonic ==
    last_call.op = "update_status"
    => /\ last_call.result.stage \in Stages
       /\ last_call.result.message = stage_messages[last_call.result.stage].message
       /\ last_call.result.progress = stage_messages[last_call.result.stage].progress
       /\ last_call.result.message # "Processing..."
       /\ last_call.result.stage = "error" => last_call.result.progress = 0
       /\ last_call.result.stage = "upload_started" => last_call.result.progress = 5
       /\ last_call.result.stage = "completed" => last_call.result.progress = 100
       /\ \A i \in 1..Len(HappyPath) :
            StageIndex(last_call.result.stage) <= i
            => last_call.result.progress <= StageConfig(HappyPath[i]).progress
               \/ last_call.result.stage = "error"

C33_Witness ==
    /\ last_call.op = "update_status"
    /\ last_call.result.stage = "error"
    /\ last_call.result.progress = 0
    /\ Len(status_storage[last_call.session]) = 2
    /\ status_storage[last_call.session][1].stage = "completed"
    /\ status_storage[last_call.session][1].progress = 100

----------------------------------------------------------------------------
(* Claims about the order of the sends of publish_event *)

\* The positions of the sends made through the given transport
SendsVia(attempts, via) == {i \in DOMAIN attempts : attempts[i].via = via}

\* C34: in publish_event with persistent=True the JetStream send comes first
\* and the core send is made only after the JetStream attempt failed, each at
\* most once per call; with persistent=False JetStream is never used; whenever
\* publish_event returns True exactly one send completed successfully.
C34_SendOrder ==
    last_call.op = "publish_event"
    => /\ Cardinality(SendsVia(last_call.attempts, "jetstream")) <= 1
       /\ Cardinality(SendsVia(last_call.attempts, "core")) <= 1
       /\ ~last_call.persistent => SendsVia(last_call.attempts, "jetstream") = {}
       /\ last_call.persistent
          => \A i \in SendsVia(last_call.attempts, "core") :
                /\ ~last_call.js_ok
                /\ \A j \in SendsVia(last_call.attempts, "jetstream") :
                      j < i /\ ~last_call.attempts[j].ok
       /\ last_call.result = TRUE
          => Cardinality({i \in DOMAIN last_call.attempts :
                            last_call.attempts[i].ok}) = 1

C34_Witness ==
    /\ last_call.op = "publish_event"
    /\ last_call.persistent
    /\ last_call.result = TRUE
    /\ Len(last_call.attempts) = 2
    /\ last_call.attempts[1] = Send("jetstream", FALSE)
    /\ last_call.attempts[2] = Send("core", TRUE)

----------------------------------------------------------------------------
(* Claims about when the guardrail trips *)

\* C35: cv_validation_guardrail triggers the tripwire exactly when the input
\* contains a CV indicator, the classifier ran without raising, and its result
\* has is_valid_cv = False or a confidence_score below 0.6; an input with no
\* CV indicator is admitted without running the classifier.
C35_TripwireExactlyOnRejectedCv ==
    last_call.op = "cv_validation_guardrail"
    => /\ last_call.result.tripwire_triggered
          <=> /\ has_cv_indicators(last_call.input_data)
              /\ ~last_call.run.run_raises
              /\ ~last_call.run.convert_raises
              /\ \/ ~last_call.run.is_valid_cv
                 \/ last_call.run.confidence_score < ConfidenceThreshold
       /\ ~has_cv_indicators(last_call.input_data)
          => /\ ~last_call.classifier_ran
             /\ ~last_call.result.tripwire_triggered

C35_Witness ==
    /\ last_call.op = "cv_validation_guardrail"
    /\ last_call.input_data = {"/tmp/upload"}
    /\ last_call.classifier_ran
    /\ last_call.run.is_valid_cv
    /\ last_call.run.confidence_score = 5
    /\ last_call.result.tripwire_triggered

----------------------------------------------------------------------------
(* Claims about an agent run that fails after the file was stored *)

\* The upload of job j ended with Runner.run raising agent_error
AgentRunFailed(j) == jobs[j].pc = "done" /\ jobs[j].outcome \in AgentErrors

\* C36: when the agent run of an upload fails after the file was stored, the
\* upload is answered with a CVUploadResponse, never an HTTP error: with
\* processing_status 'needs_review' when the lower-cased error text contains
\* 'guardrail' or 'tripwire', with 'manual_review' otherwise; the stored row
\* is kept.
C36_AgentFailureKeepsUpload ==
    \A j \in Jobs :
        AgentRunFailed(j)
        => /\ responses[j].kind = "CVUploadResponse"
           /\ responses[j].processing_status =
                  IF \/ InLowered("guardrail", jobs[j].outcome)
                     \/ InLowered("tripwire", jobs[j].outcome)
                  THEN "needs_review" ELSE "manual_review"
           /\ jobs[j].cv_id \in 1..Len(cv_table)
           /\ cv_table[jobs[j].cv_id].original_filename = j

C36_Witness ==
    /\ AgentRunFailed("j1")
    /\ jobs["j1"].outcome = "Tripwire raised by tool"
    /\ responses["j1"].processing_status = "needs_review"
    /\ AgentRunFailed("j2")
    /\ responses["j2"].processing_status = "manual_review"
    /\ Len(cv_table) = 2

----------------------------------------------------------------------------
(* Claims about failures inside the tools *)

ToolOps == {"extract_cv_text_with_responses_api", "prepare_cv_file_for_processing"}

\* A tool call has just ended on an error raised inside its try block
ToolFailedNow ==
    /\ last_call'.op \in ToolOps
    /\ last_call'.error \in ToolErrors \cup {"Exception"}
    /\ last_call'.error # "none"
    /\ (tool_calls' # tool_calls \/ jobs' # jobs)

\* The stages a tool records itself before its work can fail
ToolStages == {"file_preparation", "openai_upload", "cv_parsing"}

\* C37: the extraction and preparation tools never raise; a failure inside
\* them is returned as a result with status 'file_not_found', 'failed' or
\* 'preparation_failed', no ERROR update is recorded, and every session's
\* current status is what it was or the stage the tool recorded before it
\* failed.
C37_ToolFailuresReturnedNotRecorded ==
    [][ToolFailedNow
       => /\ ~last_call'.raised
          /\ last_call'.result \in {"file_not_found", "failed", "preparation_failed"}
          /\ \A s \in Sessions :
                \/ get_current_status(s)' = get_current_status(s)
                \/ /\ Updated(s)
                   /\ get_current_status(s)' = last_update'[s]
                   /\ last_update'[s].stage \in ToolStages]_vars

C37_Witness ==
    /\ last_call.op = "extract_cv_text_with_responses_api"
    /\ last_call.error = "Exception"
    /\ last_call.result = "failed"
    /\ "s1" \in DOMAIN status_storage
    /\ get_current_status("s1").stage = "openai_upload"

----------------------------------------------------------------------------
(* Claims about the connected flag *)

\* This step is a connect that completed
ConnectCompletes ==
    /\ last_call'.op = "init_nats"
    /\ clients' # clients
    /\ ~last_call'.raised

\* This step is a disconnect that closed the connection
DisconnectCloses ==
    /\ last_call'.op = "close_nats"
    /\ clients' # clients
    /\ last_call'.transport_called
    /\ ~last_call'.raised

\* C38: the connected flag turns true in, and only in, a connect that
\* completed and turns false in, and only in, a disconnect that closed the
\* connection, so it is true exactly between the two; get_nats returns a
\* client only while the flag is true.
C38_ConnectedFlagTracksConnection ==
    /\ [][/\ ConnectCompletes => connection'.connected
          /\ DisconnectCloses => ~connection'.connected
          /\ (~connection.connected /\ connection'.connected) => ConnectCompletes
          /\ (connection.connected /\ ~connection'.connected) => DisconnectCloses]_vars
    /\ [](~get_nats.raises => connection.connected)
    /\ []((last_call.op = "get_nats" /\ ~last_call.raised) => connection.connected)

C38_Witness ==
    /\ Len(clients) = 2
    /\ clients[1].state = "closed"
    /\ clients[2].state = "open"
    /\ connection.connected
    /\ last_call.op = "get_nats"
    /\ ~last_call.raised
    /\ last_call.result = 2

----------------------------------------------------------------------------
(* Claims about the cached event publisher *)

\* This step is a call of one of the on_... methods
EventCalled ==
    /\ last_call'.op \in {OnEvent(kind) : kind \in EventKinds}
    /\ UNCHANGED conn_vars

\* C39: CVEventIntegration creates its EventPublisher at most once. While
\* get_nats fails an event call caches nothing, and the next call looks the
\* client up again; once a publisher exists it is never replaced, and every
\* later event is published through its client, also after that connection
\* was closed or init_nats made a new one.
C39_PublisherCreatedOnce ==
    [][/\ event_publisher # NoClient => event_publisher' = event_publisher
       /\ EventCalled
          => /\ event_publisher # NoClient
                => last_call'.client = event_publisher
             /\ (event_publisher = NoClient /\ get_nats.raises)
                => /\ event_publisher' = NoClient
                   /\ last_call'.client = NoClient
             /\ (event_publisher = NoClient /\ ~get_nats.raises
                 /\ last_call'.creation_ok)
                => /\ event_publisher' = nats_client
                   /\ last_call'.client = nats_client]_vars

C39_Witness ==
    /\ last_call.op = "on_cv_processing_started"
    /\ event_publisher = 1
    /\ last_call.client = 1
    /\ clients[1].state = "closed"
    /\ nats_client = 2
    /\ clients[2].state = "open"
    /\ connection.connected

====
